---- MODULE Spec2Model ----
\* Model of src/libextra/time.rs: strptime / strftime and the named
\* convenience formatters of Tm.
\*
\* Text is modelled as a sequence of one-character strings.  Positions are
\* the 0-based byte offsets the code uses, so the character at position pos
\* of text s is s[pos + 1].  Only ASCII text is modelled, hence
\* char_range_at(pos).next = pos + 1.
EXTENDS Integers, Sequences, FiniteSets, TLC

\* ---------------------------------------------------------------------------
\* Constants of the program
\* ---------------------------------------------------------------------------

NSEC_PER_SEC == 1000000000

Digits == {"0", "1", "2", "3", "4", "5", "6", "7", "8", "9"}

\* range.ch as i32 - '0' as i32, for a character already known to be a digit
DigitVal(c) ==
  CASE c = "0" -> 0 [] c = "1" -> 1 [] c = "2" -> 2 [] c = "3" -> 3
    [] c = "4" -> 4 [] c = "5" -> 5 [] c = "6" -> 6 [] c = "7" -> 7
    [] c = "8" -> 8 [] c = "9" -> 9

\* the character of a single decimal digit 0..9
DigitChar(d) ==
  CASE d = 0 -> "0" [] d = 1 -> "1" [] d = 2 -> "2" [] d = 3 -> "3"
    [] d = 4 -> "4" [] d = 5 -> "5" [] d = 6 -> "6" [] d = 7 -> "7"
    [] d = 8 -> "8" [] d = 9 -> "9"

\* what rdr.read_char() yields once the format reader is at its end
EOFChar == "EOF"

empty_tm_mut ==
  [tm_sec |-> 0, tm_min |-> 0, tm_hour |-> 0, tm_mday |-> 0, tm_mon |-> 0,
   tm_year |-> 0, tm_wday |-> 0, tm_yday |-> 0, tm_isdst |-> 0,
   tm_gmtoff |-> 0, tm_zone |-> <<"U", "T", "C">>, tm_nsec |-> 0]

\* the accumulator do_strptime starts from
empty_tm ==
  [tm_sec |-> 0, tm_min |-> 0, tm_hour |-> 0, tm_mday |-> 0, tm_mon |-> 0,
   tm_year |-> 0, tm_wday |-> 0, tm_yday |-> 0, tm_isdst |-> 0,
   tm_gmtoff |-> 0, tm_zone |-> <<>>, tm_nsec |-> 0]

DayNames ==
  << <<<<"S", "u", "n", "d", "a", "y">>, 0>>,
     <<<<"M", "o", "n", "d", "a", "y">>, 1>>,
     <<<<"T", "u", "e", "s", "d", "a", "y">>, 2>>,
     <<<<"W", "e", "d", "n", "e", "s", "d", "a", "y">>, 3>>,
     <<<<"T", "h", "u", "r", "s", "d", "a", "y">>, 4>>,
     <<<<"F", "r", "i", "d", "a", "y">>, 5>>,
     <<<<"S", "a", "t", "u", "r", "d", "a", "y">>, 6>> >>

DayAbbrevs ==
  << <<<<"S", "u", "n">>, 0>>,
     <<<<"M", "o", "n">>, 1>>,
     <<<<"T", "u", "e">>, 2>>,
     <<<<"W", "e", "d">>, 3>>,
     <<<<"T", "h", "u">>, 4>>,
     <<<<"F", "r", "i">>, 5>>,
     <<<<"S", "a", "t">>, 6>> >>

MonthNames ==
  << <<<<"J", "a", "n", "u", "a", "r", "y">>, 0>>,
     <<<<"F", "e", "b", "r", "u", "a", "r", "y">>, 1>>,
     <<<<"M", "a", "r", "c", "h">>, 2>>,
     <<<<"A", "p", "r", "i", "l">>, 3>>,
     <<<<"M", "a", "y">>, 4>>,
     <<<<"J", "u", "n", "e">>, 5>>,
     <<<<"J", "u", "l", "y">>, 6>>,
     <<<<"A", "u", "g", "u", "s", "t">>, 7>>,
     <<<<"S", "e", "p", "t", "e", "m", "b", "e", "r">>, 8>>,
     <<<<"O", "c", "t", "o", "b", "e", "r">>, 9>>,
     <<<<"N", "o", "v", "e", "m", "b", "e", "r">>, 10>>,
     <<<<"D", "e", "c", "e", "m", "b", "e", "r">>, 11>> >>

MonthAbbrevs ==
  << <<<<"J", "a", "n">>, 0>>,
     <<<<"F", "e", "b">>, 1>>,
     <<<<"M", "a", "r">>, 2>>,
     <<<<"A", "p", "r">>, 3>>,
     <<<<"M", "a", "y">>, 4>>,
     <<<<"J", "u", "n">>, 5>>,
     <<<<"J", "u", "l">>, 6>>,
     <<<<"A", "u", "g">>, 7>>,
     <<<<"S", "e", "p">>, 8>>,
     <<<<"O", "c", "t">>, 9>>,
     <<<<"N", "o", "v">>, 10>>,
     <<<<"D", "e", "c">>, 11>> >>

LowerAmPm == << <<<<"a", "m">>, 0>>, <<<<"p", "m">>, 12>> >>

UpperAmPm == << <<<<"A", "M">>, 0>>, <<<<"P", "M">>, 12>> >>

\* ---------------------------------------------------------------------------
\* do_strptime: the matchers
\* ---------------------------------------------------------------------------

\* match_str: "T" (true), "F" (false) or "A" when s[i] indexes past the end
\* of s, which ends the task.  k is the index of the needle byte compared.
RECURSIVE match_str_from(_, _, _, _)
match_str_from(s, i, needle, k) ==
  IF k > Len(needle) THEN "T"
  ELSE IF i >= Len(s) THEN "A"
  ELSE IF s[i + 1] # needle[k] THEN "F"
  ELSE match_str_from(s, i + 1, needle, k + 1)

match_str(s, pos, needle) == match_str_from(s, pos, needle, 1)

\* match_strs: the first needle of strs, in order, that matches at pos
RECURSIVE match_strs_from(_, _, _, _)
match_strs_from(ss, pos, strs, i) ==
  IF i > Len(strs) THEN [kind |-> "None", val |-> 0, pos |-> pos]
  ELSE LET m == match_str(ss, pos, strs[i][1]) IN
       IF m = "A" THEN [kind |-> "Abort", val |-> 0, pos |-> pos]
       ELSE IF m = "T"
         THEN [kind |-> "Some", val |-> strs[i][2],
               pos |-> pos + Len(strs[i][1])]
         ELSE match_strs_from(ss, pos, strs, i + 1)

match_strs(ss, pos, strs) == match_strs_from(ss, pos, strs, 1)

\* the start-of-iteration test of match_digits
InputExhausted_mut(pos, len) == pos > len

InputExhausted(pos, len) == pos >= len

\* match_digits: exactly `digits` characters, each a digit or, when ws, a space
RECURSIVE match_digits_from(_, _, _, _, _, _)
match_digits_from(ss, pos, digits, ws, value, i) ==
  IF ~(i < digits) THEN [kind |-> "Some", val |-> value, pos |-> pos]
  ELSE IF InputExhausted(pos, Len(ss))
    THEN [kind |-> "None", val |-> 0, pos |-> pos]
  ELSE IF pos >= Len(ss) THEN [kind |-> "Abort", val |-> 0, pos |-> pos]
  ELSE LET ch == ss[pos + 1] IN
       IF ch \in Digits
         THEN match_digits_from(ss, pos + 1, digits, ws,
                                value * 10 + DigitVal(ch), i + 1)
       ELSE IF ch = " " /\ ws
         THEN match_digits_from(ss, pos + 1, digits, ws, value, i + 1)
       ELSE [kind |-> "None", val |-> 0, pos |-> pos]

match_digits(ss, pos, digits, ws) ==
  match_digits_from(ss, pos, digits, ws, 0, 0)

\* match_fractional_seconds: the first multiplier
FirstMultiplier_mut == NSEC_PER_SEC \div 100

FirstMultiplier == NSEC_PER_SEC \div 10

\* match_fractional_seconds: multiplier /= 10
NextMultiplier_mut(multiplier) == multiplier \div 100

NextMultiplier_one(multiplier) ==
  IF multiplier = 1 THEN 1 ELSE multiplier \div 10

NextMultiplier(multiplier) == multiplier \div 10

RECURSIVE match_fractional_from(_, _, _, _)
match_fractional_from(ss, pos, value, multiplier) ==
  IF pos >= Len(ss) THEN [val |-> value, pos |-> pos]
  ELSE LET ch == ss[pos + 1] IN
       IF ch \in Digits
         THEN match_fractional_from(ss, pos + 1,
                                    value + DigitVal(ch) * multiplier,
                                    NextMultiplier(multiplier))
         ELSE [val |-> value, pos |-> pos]

match_fractional_seconds(ss, pos) ==
  match_fractional_from(ss, pos, 0, FirstMultiplier)

\* the guard of match_digits_in_range
InRange_mut(val, min, max) == val >= min /\ val < max

InRange(val, min, max) == val >= min /\ val <= max

match_digits_in_range(ss, pos, digits, ws, min, max) ==
  LET m == match_digits(ss, pos, digits, ws) IN
  IF m.kind = "Some" /\ InRange(m.val, min, max) THEN m
  ELSE IF m.kind = "Abort" THEN m
  ELSE [kind |-> "None", val |-> 0, pos |-> pos]

\* Results of parse_char and parse_type: Ok(pos) with the accumulator as the
\* call left it, Err(msg), or Abort when the call ends the task.
POk(pos, tm) == [kind |-> "Ok", pos |-> pos, tm |-> tm, msg |-> <<>>]

PErr(pos, tm, msg) == [kind |-> "Err", pos |-> pos, tm |-> tm, msg |-> msg]

PAbort(pos, tm) == [kind |-> "Abort", pos |-> pos, tm |-> tm, msg |-> <<>>]

\* parse_char: char_range_at(pos) indexes s[pos] and ends the task at the end
\* of the input
parse_char_mut(s, pos, c, tm) ==
  IF pos >= Len(s) THEN PAbort(pos, tm)
  ELSE POk(pos + 1, tm)

parse_char(s, pos, c, tm) ==
  IF pos >= Len(s) THEN PAbort(pos, tm)
  ELSE IF c = s[pos + 1] THEN POk(pos + 1, tm)
  ELSE PErr(pos, tm, <<"Expected ", c, ", found ", s[pos + 1]>>)

\* the arms of parse_type that match a name table or a number
NameArm(s, pos, tm, strs, field, msg) ==
  LET m == match_strs(s, pos, strs) IN
  IF m.kind = "Abort" THEN PAbort(pos, tm)
  ELSE IF m.kind = "Some"
    THEN POk(m.pos, [tm EXCEPT ![field] = m.val])
    ELSE PErr(pos, tm, <<msg>>)

AmPmArm(s, pos, tm, strs) ==
  LET m == match_strs(s, pos, strs) IN
  IF m.kind = "Abort" THEN PAbort(pos, tm)
  ELSE IF m.kind = "Some"
    THEN POk(m.pos, [tm EXCEPT !.tm_hour = @ + m.val])
    ELSE PErr(pos, tm, <<"Invalid hour">>)

\* the value an arm assigns to its field for the matched value v:
\* v itself, v - 1 ('j', 'm'), 0 for 12 ('I', 'l') or 0 for 7 ('u')
Stored_mut(how, v) ==
  CASE how = "Same" -> v
    [] how = "MinusOne" -> v
    [] how = "TwelveIsZero" -> (IF v = 12 THEN 0 ELSE v)
    [] how = "SevenIsZero" -> (IF v = 7 THEN 0 ELSE v)

Stored_noon(how, v) ==
  CASE how = "Same" -> v
    [] how = "MinusOne" -> v - 1
    [] how = "TwelveIsZero" -> v
    [] how = "SevenIsZero" -> (IF v = 7 THEN 0 ELSE v)

Stored(how, v) ==
  CASE how = "Same" -> v
    [] how = "MinusOne" -> v - 1
    [] how = "TwelveIsZero" -> (IF v = 12 THEN 0 ELSE v)
    [] how = "SevenIsZero" -> (IF v = 7 THEN 0 ELSE v)

DigitsArm(s, pos, tm, digits, ws, min, max, field, how, msg) ==
  LET m == match_digits_in_range(s, pos, digits, ws, min, max) IN
  IF m.kind = "Abort" THEN PAbort(pos, tm)
  ELSE IF m.kind = "Some"
    THEN POk(m.pos, [tm EXCEPT ![field] = Stored(how, m.val)])
    ELSE PErr(pos, tm, <<msg>>)

\* the loop of the 'Z' arm that skips an unrecognized zone token
RECURSIVE SkipZone(_, _)
SkipZone(s, pos) ==
  IF ~(pos < Len(s)) THEN pos
  ELSE IF s[pos + 1] = " " THEN pos + 1
  ELSE SkipZone(s, pos + 1)

\* the message of the 'Y' arm
YearMsg == <<"Invalid year">>

\* what the 'C' arm stores for the two digits' value v
century_arm_mut(tm, v) == [tm EXCEPT !.tm_year = (v * 100) - 1900]

century_arm_day(tm, v) ==
  [tm EXCEPT !.tm_year = @ + (v * 100) - 1900, !.tm_mday = v]

century_arm(tm, v) == [tm EXCEPT !.tm_year = @ + (v * 100) - 1900]

\* what the 'z' arm stores for the four digits' value v
zone_offset_arm_mut(tm, v) ==
  IF v = 0
    THEN [tm EXCEPT !.tm_gmtoff = 0, !.tm_zone = <<"U", "T", "C">>]
    ELSE [tm EXCEPT !.tm_gmtoff = v]

zone_offset_arm_lbl(tm, v) ==
  [tm EXCEPT !.tm_gmtoff = 0, !.tm_zone = <<"U", "T", "C">>]

zone_offset_arm(tm, v) ==
  IF v = 0
    THEN [tm EXCEPT !.tm_gmtoff = 0, !.tm_zone = <<"U", "T", "C">>]
    ELSE tm

RECURSIVE parse_type(_, _, _, _)

\* In the two operators below and in ScanLoop, x \in {e} binds x to the value
\* of e, so that e is computed once however often the step uses it.

\* r.and_then(|pos| parse_type(s, pos, ch, tm))
AndThenType(r, s, ch) ==
  CHOOSE y \in {IF x.kind = "Ok" THEN parse_type(s, x.pos, ch, x.tm) ELSE x
                : x \in {r}} : TRUE

\* r.and_then(|pos| parse_char(s, pos, c))
AndThenChar(r, s, c) ==
  CHOOSE y \in {IF x.kind = "Ok" THEN parse_char(s, x.pos, c, x.tm) ELSE x
                : x \in {r}} : TRUE

parse_type(s, pos, ch, tm) ==
  CASE ch = "A" -> NameArm(s, pos, tm, DayNames, "tm_wday", "Invalid day")
    [] ch = "a" -> NameArm(s, pos, tm, DayAbbrevs, "tm_wday", "Invalid day")
    [] ch = "B" -> NameArm(s, pos, tm, MonthNames, "tm_mon", "Invalid month")
    [] ch \in {"b", "h"} ->
         NameArm(s, pos, tm, MonthAbbrevs, "tm_mon", "Invalid month")
    [] ch = "C" ->
         LET m == match_digits_in_range(s, pos, 2, FALSE, 0, 99) IN
         IF m.kind = "Abort" THEN PAbort(pos, tm)
         ELSE IF m.kind = "Some"
           THEN POk(m.pos, century_arm(tm, m.val))
           ELSE PErr(pos, tm, <<"Invalid year">>)
    [] ch = "c" ->
         LET r1 == parse_type(s, pos, "a", tm)
             r2 == AndThenChar(r1, s, " ")
             r3 == AndThenType(r2, s, "b")
             r4 == AndThenChar(r3, s, " ")
             r5 == AndThenType(r4, s, "e")
             r6 == AndThenChar(r5, s, " ")
             r7 == AndThenType(r6, s, "T")
             r8 == AndThenChar(r7, s, " ")
         IN  AndThenType(r8, s, "Y")
    [] ch \in {"D", "x"} ->
         LET r1 == parse_type(s, pos, "m", tm)
             r2 == AndThenChar(r1, s, "/")
             r3 == AndThenType(r2, s, "d")
             r4 == AndThenChar(r3, s, "/")
         IN  AndThenType(r4, s, "y")
    [] ch = "d" -> DigitsArm(s, pos, tm, 2, FALSE, 1, 31, "tm_mday", "Same",
                             "Invalid day of the month")
    [] ch = "e" -> DigitsArm(s, pos, tm, 2, TRUE, 1, 31, "tm_mday", "Same",
                             "Invalid day of the month")
    [] ch = "f" ->
         LET m == match_fractional_seconds(s, pos) IN
         POk(m.pos, [tm EXCEPT !.tm_nsec = m.val])
    [] ch = "F" ->
         LET r1 == parse_type(s, pos, "Y", tm)
             r2 == AndThenChar(r1, s, "-")
             r3 == AndThenType(r2, s, "m")
             r4 == AndThenChar(r3, s, "-")
         IN  AndThenType(r4, s, "d")
    [] ch = "H" -> DigitsArm(s, pos, tm, 2, FALSE, 0, 23, "tm_hour", "Same",
                             "Invalid hour")
    [] ch = "I" -> DigitsArm(s, pos, tm, 2, FALSE, 1, 12, "tm_hour",
                             "TwelveIsZero", "Invalid hour")
    [] ch = "j" -> DigitsArm(s, pos, tm, 3, FALSE, 1, 366, "tm_yday",
                             "MinusOne", "Invalid day of year")
    [] ch = "k" -> DigitsArm(s, pos, tm, 2, TRUE, 0, 23, "tm_hour", "Same",
                             "Invalid hour")
    [] ch = "l" -> DigitsArm(s, pos, tm, 2, TRUE, 1, 12, "tm_hour",
                             "TwelveIsZero", "Invalid hour")
    [] ch = "M" -> DigitsArm(s, pos, tm, 2, FALSE, 0, 59, "tm_min", "Same",
                             "Invalid minute")
    [] ch = "m" -> DigitsArm(s, pos, tm, 2, FALSE, 1, 12, "tm_mon",
                             "MinusOne", "Invalid month")
    [] ch = "n" -> parse_char(s, pos, "\n", tm)
    [] ch = "P" -> AmPmArm(s, pos, tm, LowerAmPm)
    [] ch = "p" -> AmPmArm(s, pos, tm, UpperAmPm)
    [] ch = "R" ->
         LET r1 == parse_type(s, pos, "H", tm)
             r2 == AndThenChar(r1, s, ":")
         IN  AndThenType(r2, s, "M")
    [] ch = "r" ->
         LET r1 == parse_type(s, pos, "I", tm)
             r2 == AndThenChar(r1, s, ":")
             r3 == AndThenType(r2, s, "M")
             r4 == AndThenChar(r3, s, ":")
             r5 == AndThenType(r4, s, "S")
             r6 == AndThenChar(r5, s, " ")
         IN  AndThenType(r6, s, "p")
    [] ch = "S" -> DigitsArm(s, pos, tm, 2, FALSE, 0, 60, "tm_sec", "Same",
                             "Invalid second")
    [] ch \in {"T", "X"} ->
         LET r1 == parse_type(s, pos, "H", tm)
             r2 == AndThenChar(r1, s, ":")
             r3 == AndThenType(r2, s, "M")
             r4 == AndThenChar(r3, s, ":")
         IN  AndThenType(r4, s, "S")
    [] ch = "t" -> parse_char(s, pos, "\t", tm)
    [] ch = "u" -> DigitsArm(s, pos, tm, 1, FALSE, 1, 7, "tm_wday",
                             "SevenIsZero", "Invalid day of week")
    [] ch = "v" ->
         LET r1 == parse_type(s, pos, "e", tm)
             r2 == AndThenChar(r1, s, "-")
             r3 == AndThenType(r2, s, "b")
             r4 == AndThenChar(r3, s, "-")
         IN  AndThenType(r4, s, "Y")
    [] ch = "w" -> DigitsArm(s, pos, tm, 1, FALSE, 0, 6, "tm_wday", "Same",
                             "Invalid day of week")
    [] ch = "Y" ->
         LET m == match_digits(s, pos, 4, FALSE) IN
         IF m.kind = "Abort" THEN PAbort(pos, tm)
         ELSE IF m.kind = "Some"
           THEN POk(m.pos, [tm EXCEPT !.tm_year = m.val - 1900])
           ELSE PErr(pos, tm, YearMsg)
    [] ch = "y" -> DigitsArm(s, pos, tm, 2, FALSE, 0, 99, "tm_year", "Same",
                             "Invalid year")
    [] ch = "Z" ->
         LET u == match_str(s, pos, <<"U", "T", "C">>)
             g == IF u = "F" THEN match_str(s, pos, <<"G", "M", "T">>) ELSE u
         IN  IF g = "A" THEN PAbort(pos, tm)
             ELSE IF g = "T"
               THEN POk(pos + 3, [tm EXCEPT !.tm_gmtoff = 0,
                                            !.tm_zone = <<"U", "T", "C">>])
               ELSE POk(SkipZone(s, pos), tm)
    [] ch = "z" ->
         IF pos >= Len(s) THEN PAbort(pos, tm)
         ELSE IF s[pos + 1] = "+" \/ s[pos + 1] = "-"
           THEN LET m == match_digits(s, pos + 1, 4, FALSE) IN
                IF m.kind = "Abort" THEN PAbort(pos, tm)
                ELSE IF m.kind = "Some"
                  THEN POk(m.pos, zone_offset_arm(tm, m.val))
                  ELSE PErr(pos, tm, <<"Invalid zone offset">>)
           ELSE PErr(pos, tm, <<"Invalid zone offset">>)
    [] ch = "%" -> parse_char(s, pos, "%", tm)
    [] OTHER -> PErr(pos, tm, <<"unknown formatting type: ", ch>>)

\* ---------------------------------------------------------------------------
\* do_strptime: the scan of the format against the input
\* ---------------------------------------------------------------------------

\* rdr.eof() for a reader that has consumed fpos characters of format
Eof(format, fpos) == fpos >= Len(format)

\* rdr.read_char(): the next character, or EOFChar at the end of the format
ReadChar(format, fpos) ==
  IF Eof(format, fpos) THEN EOFChar ELSE format[fpos + 1]

\* the reader position after rdr.read_char()
AfterRead(format, fpos) == IF Eof(format, fpos) THEN fpos ELSE fpos + 1

\* The while loop of do_strptime.  `result` is the local of that name (the
\* message of the pending Err).  exit tells how the loop was left: "cond"
\* when its condition became false, "literal" by the break on a literal
\* mismatch, "error" by the break on a failed parse_type, "abort" when the
\* task ended inside parse_type.
RECURSIVE ScanLoop(_, _, _, _, _, _)
ScanLoop(s, format, fpos, pos, tm, result) ==
  IF ~(~Eof(format, fpos) /\ pos < Len(s))
    THEN [exit |-> "cond", pos |-> pos, fpos |-> fpos, tm |-> tm,
          result |-> result]
  ELSE
    LET ch == s[pos + 1]
        next == pos + 1
        c == ReadChar(format, fpos)
        f1 == AfterRead(format, fpos)
    IN  IF c = "%"
          THEN CHOOSE y \in
                 {LET f2 == AfterRead(format, f1) IN
                  IF r.kind = "Ok"
                    THEN ScanLoop(s, format, f2, r.pos, r.tm, result)
                  ELSE IF r.kind = "Err"
                    THEN [exit |-> "error", pos |-> pos, fpos |-> f2,
                          tm |-> r.tm, result |-> r.msg]
                  ELSE [exit |-> "abort", pos |-> pos, fpos |-> f2,
                        tm |-> r.tm, result |-> result]
                  : r \in {parse_type(s, pos, ReadChar(format, f1), tm)}}
                 : TRUE
          ELSE IF c # ch
            THEN [exit |-> "literal", pos |-> pos, fpos |-> f1, tm |-> tm,
                  result |-> result]
            ELSE ScanLoop(s, format, f1, next, tm, result)

\* the test that decides between Ok(tm) and result after the loop
CoTerminated_mut(pos, len, eof) == eof

CoTerminated(pos, len, eof) == pos = len /\ eof

\* do_strptime.  The value returned is (kind, tm, msg); pos, fpos and exit are
\* the locals at the moment of return.  An Err carries no Tm.
do_strptime(s, format) ==
  CHOOSE y \in
    {IF l.exit = "abort"
       THEN [kind |-> "Abort", tm |-> empty_tm, msg |-> <<>>,
             pos |-> l.pos, fpos |-> l.fpos, exit |-> l.exit]
     ELSE IF CoTerminated(l.pos, Len(s), Eof(format, l.fpos))
       THEN [kind |-> "Ok", tm |-> l.tm, msg |-> <<>>,
             pos |-> l.pos, fpos |-> l.fpos, exit |-> l.exit]
       ELSE [kind |-> "Err", tm |-> empty_tm, msg |-> l.result,
             pos |-> l.pos, fpos |-> l.fpos, exit |-> l.exit]
     : l \in {ScanLoop(s, format, 0, 0, empty_tm, <<"Invalid time">>)}}
    : TRUE

strptime(s, format) == do_strptime(s, format)

\* ---------------------------------------------------------------------------
\* Number formatting (format!, to_str) and i32 / int arithmetic
\* ---------------------------------------------------------------------------

AbsInt(x) == IF x < 0 THEN -x ELSE x

\* num::abs on i32: the negation wraps, so abs(-2^31) is -2^31
Abs32(x) == IF x = -2147483647 - 1 THEN x ELSE AbsInt(x)

\* machine division and remainder truncate toward zero
TruncDiv(a, b) ==
  IF (a < 0) = (b < 0) THEN AbsInt(a) \div AbsInt(b)
  ELSE -(AbsInt(a) \div AbsInt(b))

TruncRem(a, b) == a - b * TruncDiv(a, b)

\* the decimal digits of a natural number, most significant first
RECURSIVE NatDigits(_)
NatDigits(n) ==
  IF n < 10 THEN <<DigitChar(n)>>
  ELSE NatDigits(n \div 10) \o <<DigitChar(n % 10)>>

Repeat(c, n) == [i \in 1..n |-> c]

SignOf(x) == IF x < 0 THEN <<"-">> ELSE <<>>

\* x.to_str() and format!("{}", x)
to_str(x) == SignOf(x) \o NatDigits(AbsInt(x))

\* format!("{:0Wd}", x): zeros between the sign and the digits up to width W
ZeroPad(x, width) ==
  LET body == NatDigits(AbsInt(x))
      fill == width - Len(body) - Len(SignOf(x))
  IN  SignOf(x) \o Repeat("0", IF fill > 0 THEN fill ELSE 0) \o body

\* format!("{:Wd}", x): spaces before the sign and the digits up to width W
SpacePad(x, width) ==
  LET body == to_str(x)
      fill == width - Len(body)
  IN  Repeat(" ", IF fill > 0 THEN fill ELSE 0) \o body

\* ---------------------------------------------------------------------------
\* Timespec
\* ---------------------------------------------------------------------------

\* Timespec::new: the assertion fails the task, kind "Fail"
Timespec_new_mut(sec, nsec) ==
  IF nsec >= 0 /\ nsec <= NSEC_PER_SEC
    THEN [kind |-> "Ok", ts |-> [sec |-> sec, nsec |-> nsec]]
    ELSE [kind |-> "Fail"]

Timespec_new(sec, nsec) ==
  IF nsec >= 0 /\ nsec < NSEC_PER_SEC
    THEN [kind |-> "Ok", ts |-> [sec |-> sec, nsec |-> nsec]]
    ELSE [kind |-> "Fail"]

\* impl Ord for Timespec
lt_mut(self, other) ==
  self.sec < other.sec \/ self.nsec < other.nsec

lt(self, other) ==
  self.sec < other.sec \/ (self.sec = other.sec /\ self.nsec < other.nsec)

\* the default methods of Ord, which the impl leaves as they are
le(self, other) == ~lt(other, self)

gt(self, other) == lt(other, self)

ge(self, other) == ~lt(self, other)

\* #[deriving(Eq)]: field by field
eq(self, other) == self.sec = other.sec /\ self.nsec = other.nsec

ne(self, other) == ~eq(self, other)

\* ---------------------------------------------------------------------------
\* Tm::to_timespec and the runtime's inverse conversions
\* ---------------------------------------------------------------------------

IsLeap(y) == (y % 4 = 0 /\ y % 100 # 0) \/ y % 400 = 0

\* days before the first day of month mon (0-based) in a year
DaysBeforeMonth(y, mon) ==
  LET cum == <<0, 31, 59, 90, 120, 151, 181, 212, 243, 273, 304, 334>> IN
  cum[mon + 1] + (IF mon >= 2 /\ IsLeap(y) THEN 1 ELSE 0)

\* days from 1970-01-01 to January 1 of year y of the proleptic Gregorian
\* calendar
DaysBeforeYear(y) ==
  365 * (y - 1970) + ((y - 1) \div 4 - 1969 \div 4)
    - ((y - 1) \div 100 - 1969 \div 100) + ((y - 1) \div 400 - 1969 \div 400)

\* rust_timegm: the seconds since the epoch of the fields read as UTC
rust_timegm(t) ==
  LET y == t.tm_year + 1900 + (t.tm_mon \div 12)
      mon == t.tm_mon % 12
  IN  (DaysBeforeYear(y) + DaysBeforeMonth(y, mon) + (t.tm_mday - 1)) * 86400
        + t.tm_hour * 3600 + t.tm_min * 60 + t.tm_sec

\* rust_mktime: the fields read as local time, in a zone whose offset at
\* that time is the one the Tm records
rust_mktime(t) == rust_timegm(t) - t.tm_gmtoff

\* the test of to_timespec that selects rust_timegm over rust_mktime
via_timegm_mut(t) == TRUE

via_timegm(t) == t.tm_gmtoff = 0

to_timespec(t) ==
  Timespec_new(IF via_timegm(t) THEN rust_timegm(t) ELSE rust_mktime(t),
               t.tm_nsec)

\* the years rust_gmtime is asked for
GmYears == 1901..2038

\* rust_gmtime: the fields of sec read as UTC, the inverse of rust_timegm
rust_gmtime(sec, nsec) ==
  LET days == sec \div 86400
      rem == sec % 86400
      y == CHOOSE y \in GmYears :
             DaysBeforeYear(y) <= days /\ days < DaysBeforeYear(y + 1)
      yday == days - DaysBeforeYear(y)
      mon == CHOOSE m \in 0..11 :
               /\ DaysBeforeMonth(y, m) <= yday
               /\ m < 11 => yday < DaysBeforeMonth(y, m + 1)
  IN  [tm_sec |-> rem % 60, tm_min |-> (rem \div 60) % 60,
       tm_hour |-> rem \div 3600, tm_mday |-> yday - DaysBeforeMonth(y, mon) + 1,
       tm_mon |-> mon, tm_year |-> y - 1900, tm_wday |-> (days + 4) % 7,
       tm_yday |-> yday, tm_isdst |-> 0, tm_gmtoff |-> 0,
       tm_zone |-> <<"U", "T", "C">>, tm_nsec |-> nsec]

\* rust_localtime: the fields of sec in the zone tzset has installed, the
\* inverse of rust_mktime
rust_localtime(sec, nsec, zone) ==
  [rust_gmtime(sec + zone.gmtoff, nsec) EXCEPT !.tm_gmtoff = zone.gmtoff,
                                               !.tm_zone = zone.name]

at_utc(clock) == rust_gmtime(clock.sec, clock.nsec)

at(clock, zone) == rust_localtime(clock.sec, clock.nsec, zone)

\* a Tm, or the failure of the assertion in to_timespec
to_local(t, zone) ==
  IF to_timespec(t).kind = "Ok"
    THEN [kind |-> "Ok", tm |-> at(to_timespec(t).ts, zone)]
    ELSE [kind |-> "Fail"]

to_utc(t) ==
  IF to_timespec(t).kind = "Ok"
    THEN [kind |-> "Ok", tm |-> at_utc(to_timespec(t).ts)]
    ELSE [kind |-> "Fail"]

\* ---------------------------------------------------------------------------
\* do_strftime
\* ---------------------------------------------------------------------------

\* The names the arms 'A', 'a', 'B' and 'b' | 'h' of do_strftime's parse_type
\* print, in the order of the values they are matched against (0, 1, ...).
LongDays ==
  << <<"S", "u", "n", "d", "a", "y">>,
     <<"M", "o", "n", "d", "a", "y">>,
     <<"T", "u", "e", "s", "d", "a", "y">>,
     <<"W", "e", "d", "n", "e", "s", "d", "a", "y">>,
     <<"T", "h", "u", "r", "s", "d", "a", "y">>,
     <<"F", "r", "i", "d", "a", "y">>,
     <<"S", "a", "t", "u", "r", "d", "a", "y">> >>

ShortDays ==
  << <<"S", "u", "n">>,
     <<"M", "o", "n">>,
     <<"T", "u", "e">>,
     <<"W", "e", "d">>,
     <<"T", "h", "u">>,
     <<"F", "r", "i">>,
     <<"S", "a", "t">> >>

LongMonths ==
  << <<"J", "a", "n", "u", "a", "r", "y">>,
     <<"F", "e", "b", "r", "u", "a", "r", "y">>,
     <<"M", "a", "r", "c", "h">>,
     <<"A", "p", "r", "i", "l">>,
     <<"M", "a", "y">>,
     <<"J", "u", "n", "e">>,
     <<"J", "u", "l", "y">>,
     <<"A", "u", "g", "u", "s", "t">>,
     <<"S", "e", "p", "t", "e", "m", "b", "e", "r">>,
     <<"O", "c", "t", "o", "b", "e", "r">>,
     <<"N", "o", "v", "e", "m", "b", "e", "r">>,
     <<"D", "e", "c", "e", "m", "b", "e", "r">> >>

ShortMonths ==
  << <<"J", "a", "n">>,
     <<"F", "e", "b">>,
     <<"M", "a", "r">>,
     <<"A", "p", "r">>,
     <<"M", "a", "y">>,
     <<"J", "u", "n">>,
     <<"J", "u", "l">>,
     <<"A", "u", "g">>,
     <<"S", "e", "p">>,
     <<"O", "c", "t">>,
     <<"N", "o", "v">>,
     <<"D", "e", "c">> >>

\* die(): a text, not a failure
die(ch) ==
  <<"s", "t", "r", "f", "t", "i", "m", "e", ":", " ", "c", "a", "n", "'", "t", " ", "u", "n", "d", "e", "r", "s", "t", "a", "n", "d", " ", "t", "h", "i", "s", " ", "f", "o", "r", "m", "a", "t", " ">> \o <<ch, " ">>

\* match v as int { 0 => names[1], 1 => names[2], ..., _ => die() }
NameOrDie(names, v, ch) ==
  IF v \in 0..(Len(names) - 1) THEN names[v + 1] ELSE die(ch)

\* the hour of the 12-hour clock, for 'I' and 'l'
Hour12_mut(hour) ==
  LET h0 == IF hour = 0 THEN 12 ELSE hour IN
  IF h0 >= 12 THEN h0 - 12 ELSE h0

Hour12(hour) ==
  LET h0 == IF hour = 0 THEN 12 ELSE hour IN
  IF h0 > 12 THEN h0 - 12 ELSE h0

\* the year 'Y' prints
FullYear_mut(t) == t.tm_year

FullYear(t) == t.tm_year + 1900

\* the arm 'z': sign
z_sign_mut(gmtoff) == IF gmtoff >= 0 THEN "+" ELSE "-"

z_sign(gmtoff) == IF gmtoff > 0 THEN "+" ELSE "-"

\* the arm 'z': m = abs(gmtoff) / 60; h = m / 60
z_h(gmtoff) == TruncDiv(TruncDiv(Abs32(gmtoff), 60), 60)

\* the arm 'z': m after m -= h * 60
z_m(gmtoff) == TruncDiv(Abs32(gmtoff), 60) - z_h(gmtoff) * 60

RECURSIVE format_type(_, _)
format_type(ch, t) ==
  CASE ch = "A" -> NameOrDie(LongDays, t.tm_wday, ch)
    [] ch = "a" -> NameOrDie(ShortDays, t.tm_wday, ch)
    [] ch = "B" -> NameOrDie(LongMonths, t.tm_mon, ch)
    [] ch \in {"b", "h"} -> NameOrDie(ShortMonths, t.tm_mon, ch)
    [] ch = "C" -> ZeroPad(TruncDiv(t.tm_year + 1900, 100), 2)
    [] ch = "c" ->
         format_type("a", t) \o <<" ">> \o format_type("b", t) \o <<" ">>
           \o format_type("e", t) \o <<" ">> \o format_type("T", t)
           \o <<" ">> \o format_type("Y", t)
    [] ch \in {"D", "x"} ->
         format_type("m", t) \o <<"/">> \o format_type("d", t) \o <<"/">>
           \o format_type("y", t)
    [] ch = "d" -> ZeroPad(t.tm_mday, 2)
    [] ch = "e" -> SpacePad(t.tm_mday, 2)
    [] ch = "f" -> ZeroPad(t.tm_nsec, 9)
    [] ch = "F" ->
         format_type("Y", t) \o <<"-">> \o format_type("m", t) \o <<"-">>
           \o format_type("d", t)
    [] ch = "H" -> ZeroPad(t.tm_hour, 2)
    [] ch = "I" -> ZeroPad(Hour12(t.tm_hour), 2)
    [] ch = "j" -> ZeroPad(t.tm_yday + 1, 3)
    [] ch = "k" -> SpacePad(t.tm_hour, 2)
    [] ch = "l" -> SpacePad(Hour12(t.tm_hour), 2)
    [] ch = "M" -> ZeroPad(t.tm_min, 2)
    [] ch = "m" -> ZeroPad(t.tm_mon + 1, 2)
    [] ch = "n" -> <<"\n">>
    [] ch = "P" -> IF t.tm_hour < 12 THEN <<"a", "m">> ELSE <<"p", "m">>
    [] ch = "p" -> IF t.tm_hour < 12 THEN <<"A", "M">> ELSE <<"P", "M">>
    [] ch = "R" -> format_type("H", t) \o <<":">> \o format_type("M", t)
    [] ch = "r" ->
         format_type("I", t) \o <<":">> \o format_type("M", t) \o <<":">>
           \o format_type("S", t) \o <<" ">> \o format_type("p", t)
    [] ch = "S" -> ZeroPad(t.tm_sec, 2)
    [] ch = "s" -> to_str(to_timespec(t).ts.sec)
    [] ch \in {"T", "X"} ->
         format_type("H", t) \o <<":">> \o format_type("M", t) \o <<":">>
           \o format_type("S", t)
    [] ch = "t" -> <<"\t">>
    [] ch = "u" -> to_str(IF t.tm_wday = 0 THEN 7 ELSE t.tm_wday)
    [] ch = "v" ->
         format_type("e", t) \o <<"-">> \o format_type("b", t) \o <<"-">>
           \o format_type("Y", t)
    [] ch = "w" -> to_str(t.tm_wday)
    [] ch = "Y" -> to_str(FullYear(t))
    [] ch = "y" -> ZeroPad(TruncRem(t.tm_year + 1900, 100), 2)
    [] ch = "Z" -> t.tm_zone
    [] ch = "z" ->
         <<z_sign(t.tm_gmtoff)>> \o ZeroPad(z_h(t.tm_gmtoff), 2)
           \o ZeroPad(z_m(t.tm_gmtoff), 2)
    [] ch = "%" -> <<"%">>
    [] OTHER -> die(ch)

\* the loop of do_strftime: buf after the reader has reached the end
RECURSIVE FormatLoop(_, _, _, _)
FormatLoop(fmt, fpos, t, buf) ==
  IF fpos >= Len(fmt) THEN buf
  ELSE LET c == fmt[fpos + 1]
           f1 == fpos + 1
       IN  IF c = "%"
             THEN FormatLoop(fmt, IF f1 >= Len(fmt) THEN f1 ELSE f1 + 1, t,
                             buf \o format_type(
                               IF f1 >= Len(fmt) THEN EOFChar
                               ELSE fmt[f1 + 1], t))
             ELSE FormatLoop(fmt, f1, t, buf \o <<c>>)

do_strftime(fmt, t) == FormatLoop(fmt, 0, t, <<>>)

strftime(fmt, t) == do_strftime(fmt, t)

ctime(t) == strftime(<<"%", "c">>, t)

\* the test of rfc822 for a UTC time
rfc822_utc_mut(t) == t.tm_zone = <<"U", "T", "C">>

rfc822_utc(t) == t.tm_gmtoff = 0

rfc822(t) ==
  IF rfc822_utc(t)
    THEN strftime(<<"%", "a", ",", " ", "%", "d", " ", "%", "b", " ", "%", "Y", " ", "%", "T", " ", "G", "M", "T">>, t)
    ELSE strftime(<<"%", "a", ",", " ", "%", "d", " ", "%", "b", " ", "%", "Y", " ", "%", "T", " ", "%", "Z">>, t)

rfc822z(t) ==
  strftime(<<"%", "a", ",", " ", "%", "d", " ", "%", "b", " ", "%", "Y", " ", "%", "T", " ", "%", "z">>, t)

IsoFormat ==
  <<"%", "Y", "-", "%", "m", "-", "%", "d", "T", "%", "H", ":", "%", "M", ":", "%", "S">>

\* rfc3339: sign
rfc3339_sign(gmtoff) == IF gmtoff > 0 THEN "+" ELSE "-"

\* rfc3339: m = abs(gmtoff) / 60; h = m / 60
rfc3339_h(gmtoff) == TruncDiv(TruncDiv(Abs32(gmtoff), 60), 60)

rfc3339_m_mut(gmtoff) == TruncDiv(Abs32(gmtoff), 60)

\* rfc3339: m after m -= h * 60
rfc3339_m(gmtoff) == TruncDiv(Abs32(gmtoff), 60) - rfc3339_h(gmtoff) * 60

rfc3339(t) ==
  IF t.tm_gmtoff = 0
    THEN strftime(IsoFormat \o <<"Z">>, t)
    ELSE strftime(IsoFormat, t)
           \o <<rfc3339_sign(t.tm_gmtoff)>>
           \o ZeroPad(rfc3339_h(t.tm_gmtoff), 2) \o <<":">>
           \o ZeroPad(rfc3339_m(t.tm_gmtoff), 2)

\* ---------------------------------------------------------------------------
\* The calls the model makes
\* ---------------------------------------------------------------------------

\* longest generated input text
MaxLen == 3

Alphabet == {"1", "6", ":", " ", "S", "%"}

Prefixes(seq) == {SubSeq(seq, 1, n) : n \in 0..Len(seq)}

\* all texts over alphabet of length 0..n
TextsUpTo(alphabet, n) == UNION {[1..k -> alphabet] : k \in 0..n}

\* a complete input for a format, as the tests of test_strptime give them
Exemplars == {
  <<<<"F", "r", "i", " ", "F", "e", "b", " ", "1", "3", " ", "1", "5", ":", "3", "1", ":", "3", "0", " ", "2", "0", "0", "9">>,
    <<"%", "c">>>>,
  <<<<"0", "2", "/", "1", "3", "/", "0", "9">>,
    <<"%", "D">>>>,
  <<<<"0", "2", "/", "1", "3", "/", "0", "9">>,
    <<"%", "x">>>>,
  <<<<"2", "0", "0", "9", "-", "0", "2", "-", "1", "3">>,
    <<"%", "F">>>>,
  <<<<"1", "5", ":", "3", "1">>,
    <<"%", "R">>>>,
  <<<<"0", "3", ":", "3", "1", ":", "3", "0", " ", "P", "M">>,
    <<"%", "r">>>>,
  <<<<"1", "5", ":", "3", "1", ":", "3", "0">>,
    <<"%", "T">>>>,
  <<<<"1", "5", ":", "3", "1", ":", "3", "0">>,
    <<"%", "X">>>>,
  <<<<"1", "3", "-", "F", "e", "b", "-", "2", "0", "0", "9">>,
    <<"%", "v">>>>,
  <<<<"F", "r", "i", "d", "a", "y">>,
    <<"%", "A">>>>,
  <<<<"S", "a", "t">>,
    <<"%", "a">>>>,
  <<<<"F", "e", "b", "r", "u", "a", "r", "y">>,
    <<"%", "B">>>>,
  <<<<"J", "u", "n">>,
    <<"%", "b">>>>,
  <<<<"M", "a", "r">>,
    <<"%", "h">>>>,
  <<<<"a", "m">>,
    <<"%", "P">>>>,
  <<<<"P", "M">>,
    <<"%", "p">>>>,
  <<<<"U", "T", "C">>,
    <<"%", "Z">>>>,
  <<<<"G", "M", "T">>,
    <<"%", "Z">>>>,
  <<<<"P", "S", "T">>,
    <<"%", "Z">>>>,
  <<<<"-", "0", "8", "0", "0">>,
    <<"%", "z">>>>,
  <<<<"+", "0", "0", "0", "0">>,
    <<"%", "z">>>>,
  <<<<"-", "0", "0", "0", "0">>,
    <<"%", "z">>>>,
  <<<<"P", "M", "P", "M">>,
    <<"%", "p", "%", "p">>>>,
  <<<<"1", "2", "p", "m">>,
    <<"%", "I", "%", "P">>>>,
  <<<<"+", "0", "5", "3", "0">>,
    <<"%", "z">>>>,
  <<<<"1", "3", "P", "M", " ", "-", "0", "8", "0", "0", " ", "P", "S", "T">>,
    <<"%", "H", "%", "p", " ", "%", "z", " ", "%", "Z">>>>,
  <<<<"3", "6", "0">>,
    <<"%", "Y", "-", "%", "m", "-", "%", "d">>>>,
  <<<<"1", "3", " ", "2", "0", "0", "9">>,
    <<"%", "d", " ", "%", "Y">>>>,
  <<<<"2", "0", "0", "9">>,
    <<"%", "Y">>>>,
  <<<<"2", "0">>,
    <<"%", "C">>>>,
  <<<<"0", "9">>,
    <<"%", "y">>>>,
  <<<<"1", "3", "P", "M">>,
    <<"%", "H", "%", "p">>>>,
  <<<<" ", "3">>,
    <<" ", "%", "l">>>>,
  <<<<"\n", "\t", "%">>,
    <<"%", "n", "%", "t", "%", "%">>>>,
  <<<<"1">>,
    <<"%", "q">>>>,
  <<<<"1">>,
    <<"1", "%">>>>,
  <<<<>>,
    <<>>>>,
  <<<<"F", "r", "i", " ", "F", "e", "b", " ", "1", "3", " ", "1", "5", ":", "3", "1", ":", "3", "0", ".", "0", "1", "2", "3", "4", " ", "2", "0", "0", "9">>,
    <<"%", "a", " ", "%", "b", " ", "%", "e", " ", "%", "T", ".", "%", "f", " ", "%", "Y">>>> }

ExampleInput ==
  <<"F", "r", "i", " ", "F", "e", "b", " ", "1", "3", " ", "1", "5", ":", "3", "1", ":", "3", "0", ".", "0", "1", "2", "3", "4", " ", "2", "0", "0", "9">>

ExampleFormat ==
  <<"%", "a", " ", "%", "b", " ", "%", "e", " ", "%", "T", ".", "%", "f", " ", "%", "Y">>

\* every prefix of a complete input, and the input with one more character
PrefixCalls ==
  UNION {{<<p, e[2]>> : p \in Prefixes(e[1]) \cup {e[1] \o <<"1">>}}
         : e \in Exemplars}

\* every digit text of the width of a range-bounded numeric specifier
RangeCalls ==
  {<<d, <<"%", c>>>> : d \in [1..2 -> Digits],
                       c \in {"S", "m", "d", "H", "I", "M", "y", "C"}}
  \cup {<<d, <<"%", "j">>>> : d \in [1..3 -> Digits]}
  \cup {<<d, <<"%", c>>>> : d \in [1..1 -> Digits], c \in {"u", "w"}}

\* digit texts of width 0..4 where %Y is, at the top level and in a composite
YearCalls ==
  {<<pre[1] \o d, pre[2] \o rest>> :
     pre \in {<< <<>>, <<"%", "Y">> >>,
              << <<"1", "3", " ">>, <<"%", "d", " ", "%", "Y">> >>,
              << <<"1", "3", "-", "F", "e", "b", "-">>, <<"%", "v">> >>},
     d \in UNION {[1..k -> {"0", "3", "6", "x"}] : k \in 0..4},
     rest \in {<<>>, <<"-", "%", "m", "-", "%", "d">>}}

SmallFormats ==
  {<<>>, <<"1">>, <<"%">>, <<"%", "%">>, <<"%", "S">>, <<"%", "u">>,
   <<"%", "a">>, <<"%", "f">>, <<"%", "R">>, <<"%", "u", ":">>,
   <<":", "%", "w">>, <<"%", "Z">>, <<"%", "q">>, <<"%", "u", "%", "w">>}

SmallCalls ==
  {<<t, f>> : t \in TextsUpTo(Alphabet, MaxLen), f \in SmallFormats}

\* a sign and four digits where %z is
ZoneCalls ==
  {<<<<sign>> \o d, <<"%", "z">>>> :
     sign \in {"+", "-"}, d \in [1..4 -> {"0", "1", "8"}]}

\* further complete inputs: a zone token before a year, with and without a
\* space in the format
ZoneYearInputs == {
  <<<<"P", "S", "T", " ", "2", "0", "0", "9">>,
    <<"%", "Z", " ", "%", "Y">>>>,
  <<<<"P", "S", "T", " ", "2", "0", "0", "9">>,
    <<"%", "Z", "%", "Y">>>>,
  <<<<"U", "T", "C", " ", "2", "0", "0", "9">>,
    <<"%", "Z", " ", "%", "Y">>>>,
  <<<<"P", "S", "T", " ", " ", "2", "0", "0", "9">>,
    <<"%", "Z", " ", "%", "Y">>>>}

\* two characters, digits or spaces, where a space-padded number is read
SpaceCalls ==
  {<<d, <<"%", c>>>> : d \in [1..2 -> {"0", "1", "2", " "}],
                       c \in {"e", "k", "l"}}

\* digit runs of 0 to 11 digits, alone and before a character that is not a
\* digit, where %f is
FractionRuns ==
  UNION {Prefixes(d) :
           d \in {<<"1", "2", "3", "4", "5", "6", "7", "8", "9", "1", "2">>,
                  <<"9", "9", "9", "9", "9", "9", "9", "9", "9", "9", "9">>,
                  <<"0", "0", "0", "0", "0", "0", "0", "0", "1", "1", "0">>,
                  <<"0", "1", "2", "3", "4">>}}

FractionCalls ==
  {<<run \o tail, f>> :
     run \in FractionRuns, tail \in {<<>>, <<"S">>, <<"S", "1">>},
     f \in {<<"%", "f">>, <<"%", "f", "S">>}}
  \cup {<<<<".">> \o run, <<".", "%", "f">>>> : run \in FractionRuns}

\* "hh:mm:ss AM" and "hh:mm:ss PM" for every hh of the 12-hour clock
TwelveHourCalls ==
  {<<ZeroPad(hh, 2) \o <<":">> \o ZeroPad(mm, 2) \o <<":">> \o ZeroPad(ss, 2)
       \o <<" ">> \o half,
     <<"%", "r">>>> :
     hh \in 1..12, mm \in {0, 31, 59}, ss \in {0, 30, 60},
     half \in {<<"A", "M">>, <<"P", "M">>}}

\* the specifiers whose arm chains other arms
Composites == {"c", "D", "x", "F", "R", "r", "T", "X", "v"}

\* the complete input of each composite with one character replaced
CompositeCalls ==
  UNION {{<<[e[1] EXCEPT ![i] = c], e[2]>> :
            i \in 1..Len(e[1]), c \in {" ", ":", "9", "x"}}
         : e \in {x \in Exemplars : x[2] \in {<<"%", c>> : c \in Composites}}}

\* four digits where a year of the century and a century are read, in both
\* orders
CenturyCalls ==
  {<<d, f>> : d \in [1..4 -> {"0", "1", "2", "9"}],
              f \in {<<"%", "y", "%", "C">>, <<"%", "C", "%", "y">>}}

ZoneYearCalls ==
  UNION {{<<p, e[2]>> : p \in Prefixes(e[1])} : e \in ZoneYearInputs}

ParseCalls ==
  PrefixCalls \cup RangeCalls \cup YearCalls \cup SmallCalls \cup ZoneCalls
    \cup ZoneYearCalls \cup SpaceCalls \cup FractionCalls
    \cup TwelveHourCalls \cup CompositeCalls \cup CenturyCalls

\* at_utc(Timespec::new(1234567890, 54321)), as test_strftime pins it down
UtcExample ==
  [tm_sec |-> 30, tm_min |-> 31, tm_hour |-> 23, tm_mday |-> 13, tm_mon |-> 1,
   tm_year |-> 109, tm_wday |-> 5, tm_yday |-> 43, tm_isdst |-> 0,
   tm_gmtoff |-> 0, tm_zone |-> <<"U", "T", "C">>, tm_nsec |-> 54321]

\* UTC offsets the local conversion yields: whole hours, half and quarter
\* hours, and the offsets next to 0 and to a minute and an hour
Offsets ==
  {-43200, -28800, -12600, -3600, -61, -60, -59, -1, 0, 1, 59, 60, 61, 3599,
   3600, 19800, 20700, 50400}

Zones == {<<>>, <<"U", "T", "C">>, <<"G", "M", "T">>, <<"P", "S", "T">>}

FormatTms ==
  {[UtcExample EXCEPT !.tm_gmtoff = o, !.tm_zone = z, !.tm_hour = h,
                      !.tm_mday = d] :
     o \in Offsets, z \in Zones, h \in {0, 11, 12, 15, 23}, d \in {1, 13, 31}}

Rfc822Prefix ==
  <<"%", "a", ",", " ", "%", "d", " ", "%", "b", " ", "%", "Y", " ", "%", "T", " ">>

FormatFormats ==
  {<<>>, <<"%", "z">>, <<"%", "Z">>, <<"%", "s">>, <<"%", "q">>, <<"%">>,
   <<"%", "c">>, <<"%", "r">>, <<"a", "%", "%">>, IsoFormat, Rfc822Prefix}

\* the helper of test_strptime: parse s and format the result again
test(str, fmt) ==
  CHOOSE y \in {IF r.kind = "Ok" THEN (IF strftime(fmt, r.tm) = str
                                         THEN "true" ELSE "false")
                                 ELSE "fail"
                : r \in {strptime(str, fmt)}} : TRUE

\* the years of the Tm's formatted and parsed again: 1000, 1899, 1900, 1999,
\* 2000, 2009 and 9999
RoundTripYears == {-900, -1, 0, 99, 100, 109, 8099}

RoundTripNsecs ==
  {0, 1, 9, 10, 54321, 12340000, 100000000, 999999990, 999999999}

\* the years formatted with %Y: 0, 5, 360, 999, 1000, 1900, 2009 and 9999
FullYears == {-1900, -1895, -1540, -901, -900, 0, 109, 8099}

OneSpecifier(chars) == {<<"%", c>> : c \in chars}

\* a Tm that differs from UtcExample in one field, with the formats that
\* read the field; the last two lines leave the range of the field
FieldCalls ==
  {<<[UtcExample EXCEPT !.tm_mday = x], f>> :
     x \in 1..31, f \in OneSpecifier({"d", "e", "c", "D", "x", "F", "v"})}
  \cup {<<[UtcExample EXCEPT !.tm_hour = x], f>> :
     x \in 0..23,
     f \in OneSpecifier({"H", "k", "I", "l", "P", "p", "c", "R", "r", "T", "X"})}
  \cup {<<[UtcExample EXCEPT !.tm_min = x], f>> :
     x \in 0..59, f \in OneSpecifier({"M", "c", "R", "r", "T", "X"})}
  \cup {<<[UtcExample EXCEPT !.tm_sec = x], f>> :
     x \in 0..60, f \in OneSpecifier({"S", "c", "r", "T", "X"})}
  \cup {<<[UtcExample EXCEPT !.tm_mon = x], f>> :
     x \in 0..11,
     f \in OneSpecifier({"m", "B", "b", "h", "c", "D", "x", "F", "v"})}
  \cup {<<[UtcExample EXCEPT !.tm_yday = x], f>> :
     x \in 0..365, f \in OneSpecifier({"j"})}
  \cup {<<[UtcExample EXCEPT !.tm_nsec = x], f>> :
     x \in RoundTripNsecs, f \in OneSpecifier({"f"})}
  \cup {<<[UtcExample EXCEPT !.tm_wday = x], f>> :
     x \in 0..6, f \in OneSpecifier({"A", "a", "u", "w", "c"})}
  \cup {<<[UtcExample EXCEPT !.tm_year = x], f>> :
     x \in RoundTripYears,
     f \in OneSpecifier({"C", "y", "c", "D", "x", "F", "v"})}
  \cup {<<UtcExample, f>> : f \in OneSpecifier({"n", "t", "%"})}
  \cup {<<[UtcExample EXCEPT !.tm_year = x], <<"%", "Y">>>> :
     x \in FullYears}
  \cup {<<[UtcExample EXCEPT !.tm_wday = x], f>> :
     x \in {-1, 7}, f \in OneSpecifier({"A", "a"})}
  \cup {<<[UtcExample EXCEPT !.tm_mon = x], f>> :
     x \in {-1, 12}, f \in OneSpecifier({"B", "b", "h"})}

FormatCalls == (FormatTms \X FormatFormats) \cup FieldCalls

\* the values of test_timespec_eq_ord and their neighbours
Timespecs ==
  {[sec |-> x, nsec |-> n] : x \in -2..2, n \in {0, 1, 2, 999999999}}

NewSecs == {-2, 0, 2, 1234567890}

NewNsecs ==
  {-1000000000, -1, 0, 1, 54321, 999999999, 1000000000, 1000000001,
   2000000000}

\* the zones tzset installs: none set, the zone of test_at, and one east of
\* Greenwich with a half hour
TimeZones ==
  {[gmtoff |-> 0, name |-> <<"U", "T", "C">>],
   [gmtoff |-> -28800, name |-> <<"P", "S", "T">>],
   [gmtoff |-> 19800, name |-> <<"I", "S", "T">>]}

\* the Timespecs converted: around the epoch, a leap day and its neighbours,
\* the value of the tests, and early and late ones
Clocks ==
  {[sec |-> x, nsec |-> n] :
     x \in {-2000000000, -86401, -1, 0, 86399, 951782399, 951868799,
            1078099199, 1234567890, 2000000000},
     n \in {0, 54321, 999999999}}

\* ---------------------------------------------------------------------------
\* The state machine: a caller that invokes one operation at a time
\* ---------------------------------------------------------------------------

VARIABLES
  pc,       \* "idle": no call in progress; "done": the call has returned
  op,       \* the operation called last
  s,        \* strptime: the input text
  format,   \* strptime, strftime: the format text
  tm,       \* the formatters: the Tm formatted
  parsed,   \* what strptime returned
  text,     \* what a formatter returned
  ret,      \* what test, a Timespec operation or a conversion returned
  clock,    \* the Timespec, or the sec and nsec, passed
  tz        \* the zone tzset has installed

vars == <<pc, op, s, format, tm, parsed, text, ret, clock, tz>>

NoClock == [sec |-> 0, nsec |-> 0]

NoZone == [gmtoff |-> 0, name |-> <<"U", "T", "C">>]

NoRet == [kind |-> "None"]

NoResult ==
  [kind |-> "None", tm |-> empty_tm, msg |-> <<>>, pos |-> 0, fpos |-> 0,
   exit |-> "none"]

Init ==
  /\ pc = "idle"
  /\ op = "none"
  /\ s = <<>>
  /\ format = <<>>
  /\ tm = empty_tm
  /\ parsed = NoResult
  /\ text = <<>>
  /\ ret = NoRet
  /\ clock = NoClock
  /\ tz = NoZone

Tzset ==
  /\ pc = "idle"
  /\ tz' \in TimeZones
  /\ UNCHANGED <<pc, op, s, format, tm, parsed, text, ret, clock>>

TimespecNew ==
  /\ pc = "idle"
  /\ \E sec \in NewSecs, nsec \in NewNsecs :
       /\ clock' = [sec |-> sec, nsec |-> nsec]
       /\ ret' = Timespec_new(sec, nsec)
  /\ pc' = "done"
  /\ op' = "new"
  /\ UNCHANGED <<s, format, tm, parsed, text, tz>>

\* the comparisons of three Timespecs, as test_timespec_eq_ord makes them
TimespecCompare ==
  /\ pc = "idle"
  /\ \E a \in Timespecs, b \in Timespecs, c \in Timespecs :
       ret' = [kind |-> "Ok", a |-> a, b |-> b, c |-> c,
               lt_ab |-> lt(a, b), lt_ba |-> lt(b, a), lt_bc |-> lt(b, c),
               lt_ac |-> lt(a, c), le_ab |-> le(a, b), gt_ab |-> gt(a, b),
               ge_ab |-> ge(a, b), eq_ab |-> eq(a, b), ne_ab |-> ne(a, b)]
  /\ pc' = "done"
  /\ op' = "compare"
  /\ UNCHANGED <<s, format, tm, parsed, text, clock, tz>>

AtUtc ==
  /\ pc = "idle"
  /\ \E t \in Clocks :
       /\ clock' = t
       /\ tm' = at_utc(t)
  /\ pc' = "done"
  /\ op' = "at_utc"
  /\ UNCHANGED <<s, format, parsed, text, ret, tz>>

At ==
  /\ pc = "idle"
  /\ \E t \in Clocks :
       /\ clock' = t
       /\ tm' = at(t, tz)
  /\ pc' = "done"
  /\ op' = "at"
  /\ UNCHANGED <<s, format, parsed, text, ret, tz>>

\* the caller converts the Tm that at_utc or at returned
ToTimespec ==
  /\ pc = "done"
  /\ op \in {"at_utc", "at"}
  /\ ret' = to_timespec(tm)
  /\ op' = "to_timespec"
  /\ UNCHANGED <<pc, s, format, tm, parsed, text, clock, tz>>

ToLocal ==
  /\ pc = "done"
  /\ op \in {"at_utc", "at"}
  /\ ret' = to_local(tm, tz)
  /\ op' = "to_local"
  /\ UNCHANGED <<pc, s, format, tm, parsed, text, clock, tz>>

ToUtc ==
  /\ pc = "done"
  /\ op \in {"at_utc", "at"}
  /\ ret' = to_utc(tm)
  /\ op' = "to_utc"
  /\ UNCHANGED <<pc, s, format, tm, parsed, text, clock, tz>>

Strptime ==
  /\ pc = "idle"
  /\ \E call \in ParseCalls :
       /\ s' = call[1]
       /\ format' = call[2]
       /\ parsed' = strptime(call[1], call[2])
  /\ pc' = "done"
  /\ op' = "strptime"
  /\ UNCHANGED <<tm, text, ret, clock, tz>>

\* the caller parses the text strftime returned with the format that made it
StrptimeFormatted ==
  /\ pc = "done"
  /\ op = "strftime"
  /\ s' = text
  /\ parsed' = strptime(text, format)
  /\ op' = "strptime"
  /\ UNCHANGED <<pc, format, tm, text, ret, clock, tz>>

\* the caller hands the text strftime returned to test
Test ==
  /\ pc = "done"
  /\ op = "strftime"
  /\ s' = text
  /\ ret' = [kind |-> test(text, format)]
  /\ op' = "test"
  /\ UNCHANGED <<pc, format, tm, parsed, text, clock, tz>>

\* the caller takes the result and is free to call again
Return ==
  /\ pc = "done"
  /\ pc' = "idle"
  /\ op' = "none"
  /\ s' = <<>>
  /\ format' = <<>>
  /\ tm' = empty_tm
  /\ parsed' = NoResult
  /\ text' = <<>>
  /\ ret' = NoRet
  /\ clock' = NoClock
  /\ UNCHANGED tz

Strftime ==
  /\ pc = "idle"
  /\ \E call \in FormatCalls :
       /\ tm' = call[1]
       /\ format' = call[2]
       /\ text' = strftime(call[2], call[1])
  /\ pc' = "done"
  /\ op' = "strftime"
  /\ UNCHANGED <<s, parsed, ret, clock, tz>>

Ctime ==
  /\ pc = "idle"
  /\ \E t \in FormatTms :
       /\ tm' = t
       /\ text' = ctime(t)
  /\ pc' = "done"
  /\ op' = "ctime"
  /\ UNCHANGED <<s, format, parsed, ret, clock, tz>>

Rfc822 ==
  /\ pc = "idle"
  /\ \E t \in FormatTms :
       /\ tm' = t
       /\ text' = rfc822(t)
  /\ pc' = "done"
  /\ op' = "rfc822"
  /\ UNCHANGED <<s, format, parsed, ret, clock, tz>>

Rfc822z ==
  /\ pc = "idle"
  /\ \E t \in FormatTms :
       /\ tm' = t
       /\ text' = rfc822z(t)
  /\ pc' = "done"
  /\ op' = "rfc822z"
  /\ UNCHANGED <<s, format, parsed, ret, clock, tz>>

Rfc3339 ==
  /\ pc = "idle"
  /\ \E t \in FormatTms :
       /\ tm' = t
       /\ text' = rfc3339(t)
  /\ pc' = "done"
  /\ op' = "rfc3339"
  /\ UNCHANGED <<s, format, parsed, ret, clock, tz>>

Next ==
  \/ Strptime
  \/ Strftime
  \/ StrptimeFormatted
  \/ Test
  \/ Tzset
  \/ TimespecNew
  \/ TimespecCompare
  \/ AtUtc
  \/ At
  \/ ToTimespec
  \/ ToLocal
  \/ ToUtc
  \/ Ctime
  \/ Rfc822
  \/ Rfc822z
  \/ Rfc3339
  \/ Return

Spec == Init /\ [][Next]_vars

\* ---------------------------------------------------------------------------
\* Properties
\* ---------------------------------------------------------------------------

Returned(o) == pc = "done" /\ op = o

ParsedErr(msg) == parsed.kind = "Err" /\ parsed.msg = msg

\* the value of a text of decimal digits
RECURSIVE DecimalValue(_)
DecimalValue(d) ==
  IF d = <<>> THEN 0
  ELSE 10 * DecimalValue(SubSeq(d, 1, Len(d) - 1)) + DigitVal(d[Len(d)])

\* the two decimal digits of a number 0..99
TwoDigits(n) == <<DigitChar(n \div 10), DigitChar(n % 10)>>

\* the number of digit characters of text at position pos (0-based) onward
RECURSIVE DigitRun(_, _)
DigitRun(txt, pos) ==
  IF pos < Len(txt) /\ txt[pos + 1] \in Digits
    THEN 1 + DigitRun(txt, pos + 1)
    ELSE 0

ShortInput == SubSeq(ExampleInput, 1, 19)

\* C1: strptime returns Ok only with the input and the format both at their
\* end; when the scan stops because the input or the format is exhausted and
\* the other is not, the result is Err("Invalid time") -- so for an empty input
\* against a non-empty format and for "Fri Feb 13 15:31:30" against
\* "%a %b %e %T.%f %Y".
C1_CoTermination ==
  Returned("strptime") =>
    /\ parsed.kind = "Ok" =>
         parsed.pos = Len(s) /\ parsed.fpos = Len(format)
    /\ (parsed.exit = "cond"
          /\ ~(parsed.pos = Len(s) /\ parsed.fpos = Len(format))) =>
         ParsedErr(<<"Invalid time">>)
    /\ (s = <<>> /\ format # <<>>) => ParsedErr(<<"Invalid time">>)
    /\ (s = ShortInput /\ format = ExampleFormat) =>
         ParsedErr(<<"Invalid time">>)

C1_Witness ==
  /\ Returned("strptime")
  /\ s = ShortInput
  /\ format = ExampleFormat
  /\ parsed.exit = "cond"
  /\ parsed.pos = Len(s)
  /\ parsed.fpos < Len(format)
  /\ ParsedErr(<<"Invalid time">>)

\* C2: every call of strptime returns Ok or Err; none ends the task.
C2_NeverAborts == Returned("strptime") => parsed.kind \in {"Ok", "Err"}

\* C3: strptime("", "") is Ok with every numeric field 0 and an empty zone.
C3_EmptyCase ==
  (Returned("strptime") /\ s = <<>> /\ format = <<>>) =>
    /\ parsed.kind = "Ok"
    /\ parsed.tm =
         [tm_sec |-> 0, tm_min |-> 0, tm_hour |-> 0, tm_mday |-> 0,
          tm_mon |-> 0, tm_year |-> 0, tm_wday |-> 0, tm_yday |-> 0,
          tm_isdst |-> 0, tm_gmtoff |-> 0, tm_zone |-> <<>>, tm_nsec |-> 0]

C3_Witness ==
  /\ Returned("strptime")
  /\ s = <<>>
  /\ format = <<>>
  /\ parsed.kind = "Ok"
  /\ parsed.tm.tm_zone = <<>>

\* C4: strptime("Fri Feb 13 15:31:30.01234 2009", "%a %b %e %T.%f %Y") is Ok
\* with wday 5, mon 1, mday 13, hour 15, min 31, sec 30, year 109,
\* nsec 12340000, and yday, isdst, gmtoff 0 and an empty zone.
C4_Example ==
  (Returned("strptime") /\ s = ExampleInput /\ format = ExampleFormat) =>
    /\ parsed.kind = "Ok"
    /\ parsed.tm =
         [tm_sec |-> 30, tm_min |-> 31, tm_hour |-> 15, tm_mday |-> 13,
          tm_mon |-> 1, tm_year |-> 109, tm_wday |-> 5, tm_yday |-> 0,
          tm_isdst |-> 0, tm_gmtoff |-> 0, tm_zone |-> <<>>,
          tm_nsec |-> 12340000]

C4_Witness ==
  /\ Returned("strptime")
  /\ s = ExampleInput
  /\ format = ExampleFormat
  /\ parsed.kind = "Ok"
  /\ parsed.tm.tm_nsec = 12340000

\* the ranges C5 states: width, least and greatest value, message
C5_Ranges ==
  [S |-> <<2, 0, 60, "Invalid second">>,
   j |-> <<3, 1, 366, "Invalid day of year">>,
   m |-> <<2, 1, 12, "Invalid month">>,
   d |-> <<2, 1, 31, "Invalid day of the month">>,
   H |-> <<2, 0, 23, "Invalid hour">>,
   I |-> <<2, 1, 12, "Invalid hour">>,
   M |-> <<2, 0, 59, "Invalid minute">>,
   u |-> <<1, 1, 7, "Invalid day of week">>,
   w |-> <<1, 0, 6, "Invalid day of week">>]

\* C5: given exactly its width in digits, each of %S %j %m %d %H %I %M %u %w
\* is accepted when the value is within the range of the specifier and
\* rejected with the message of its field otherwise; %j and %m store v - 1.
C5_Ranges_Exact ==
  \A c \in DOMAIN C5_Ranges :
    (Returned("strptime") /\ format = <<"%", c>>
       /\ Len(s) = C5_Ranges[c][1] /\ \A i \in 1..Len(s) : s[i] \in Digits) =>
      LET v == DecimalValue(s)
          r == C5_Ranges[c]
      IN  IF r[2] <= v /\ v <= r[3]
            THEN /\ parsed.kind = "Ok"
                 /\ c = "j" => parsed.tm.tm_yday = v - 1
                 /\ c = "m" => parsed.tm.tm_mon = v - 1
                 /\ c = "S" => parsed.tm.tm_sec = v
            ELSE ParsedErr(<<r[4]>>)

C5_Witness ==
  /\ Returned("strptime")
  /\ format = <<"%", "S">>
  /\ s = <<"6", "0">>
  /\ parsed.kind = "Ok"
  /\ parsed.tm.tm_sec = 60

\* The scan of strptime(txt, fmt) arrives at the specifier %Y that starts at
\* index k of fmt with input position pos, every element before it matched.
ArrivesAtYear(txt, fmt, k, pos) ==
  /\ k \in 1..(Len(fmt) - 1)
  /\ fmt[k] = "%"
  /\ fmt[k + 1] = "Y"
  /\ LET l == ScanLoop(txt, SubSeq(fmt, 1, k - 1), 0, 0, empty_tm, <<>>) IN
     l.exit = "cond" /\ l.fpos = k - 1 /\ l.pos = pos

Input360 == <<"3", "6", "0">>

FormatYmd == <<"%", "Y", "-", "%", "m", "-", "%", "d">>

\* C6 as stated: strptime("360", "%Y-%m-%d") is Err("Invalid year"), and so is
\* every call whose input has fewer than 4 digit characters where %Y is.
C6_Original ==
  Returned("strptime") =>
    /\ (s = Input360 /\ format = FormatYmd) => ParsedErr(<<"Invalid year">>)
    /\ \A k \in 1..Len(format), pos \in 0..Len(s) :
         (ArrivesAtYear(s, format, k, pos) /\ DigitRun(s, pos) < 4) =>
           ParsedErr(<<"Invalid year">>)

\* C6 amended: strptime("360", "%Y-%m-%d") is Err("Invalid year"), and so is
\* every call whose input has at least one character, and fewer than 4 digit
\* characters, where %Y is; with no character left there the result is
\* Err("Invalid time").
C6_InvalidYear ==
  Returned("strptime") =>
    /\ (s = Input360 /\ format = FormatYmd) => ParsedErr(<<"Invalid year">>)
    /\ \A k \in 1..Len(format), pos \in 0..Len(s) :
         (ArrivesAtYear(s, format, k, pos) /\ DigitRun(s, pos) < 4) =>
           IF pos < Len(s) THEN ParsedErr(<<"Invalid year">>)
           ELSE ParsedErr(<<"Invalid time">>)

C6_Witness ==
  /\ Returned("strptime")
  /\ s = Input360
  /\ format = FormatYmd
  /\ ArrivesAtYear(s, format, 1, 0)
  /\ ParsedErr(<<"Invalid year">>)

C8_Suffix(o) ==
  IF o = 0 THEN <<"Z">>
  ELSE <<IF o > 0 THEN "+" ELSE "-">> \o TwoDigits(AbsInt(o) \div 3600)
         \o <<":">> \o TwoDigits((AbsInt(o) \div 60) % 60)

\* C8: rfc3339 is strftime("%Y-%m-%dT%H:%M:%S") followed by "Z" for offset 0
\* and otherwise by the sign, the two digits of |o| div 3600, ':' and the two
\* digits of (|o| div 60) mod 60; the suffix for -28800 is "-08:00".
C8_Rfc3339 ==
  Returned("rfc3339") =>
    /\ text = strftime(IsoFormat, tm) \o C8_Suffix(tm.tm_gmtoff)
    /\ tm.tm_gmtoff = -28800 =>
         SubSeq(text, Len(text) - 5, Len(text))
           = <<"-", "0", "8", ":", "0", "0">>

C8_Witness ==
  /\ Returned("rfc3339")
  /\ tm.tm_gmtoff = -12600
  /\ SubSeq(text, Len(text) - 5, Len(text)) = <<"-", "0", "3", ":", "3", "0">>

C10_Offset(o) ==
  <<IF o > 0 THEN "+" ELSE "-">> \o TwoDigits(AbsInt(o) \div 3600)
    \o TwoDigits((AbsInt(o) \div 60) % 60)

\* C10: %z prints a sign and the four digits HHMM of the offset, '+' only for
\* an offset above 0, and rfc822z ends with that text; offset 0 gives "-0000"
\* and -28800 gives "-0800".
C10_NumericZone ==
  /\ (Returned("strftime") /\ format = <<"%", "z">>) =>
       /\ text = C10_Offset(tm.tm_gmtoff)
       /\ Len(text) = 5
       /\ tm.tm_gmtoff = 0 => text = <<"-", "0", "0", "0", "0">>
       /\ tm.tm_gmtoff = -28800 => text = <<"-", "0", "8", "0", "0">>
  /\ Returned("rfc822z") =>
       text = strftime(Rfc822Prefix, tm) \o C10_Offset(tm.tm_gmtoff)

C10_Witness ==
  /\ Returned("strftime")
  /\ format = <<"%", "z">>
  /\ tm.tm_gmtoff = 0
  /\ text = <<"-", "0", "0", "0", "0">>

\* C11: every Tm a successful strptime returns has tm_gmtoff 0, tm_isdst 0
\* and a tm_zone that is empty or "UTC", also when the format has %z or %Z
\* and the input names another offset or zone; to_timespec therefore takes
\* the rust_timegm branch for it.
C11_ParsedIsUtc ==
  (Returned("strptime") /\ parsed.kind = "Ok") =>
    /\ parsed.tm.tm_gmtoff = 0
    /\ parsed.tm.tm_isdst = 0
    /\ parsed.tm.tm_zone \in {<<>>, <<"U", "T", "C">>}
    /\ via_timegm(parsed.tm)

C11_Witness ==
  /\ Returned("strptime")
  /\ parsed.kind = "Ok"
  /\ s = <<"-", "0", "8", "0", "0">>
  /\ format = <<"%", "z">>
  /\ parsed.tm.tm_gmtoff = 0
  /\ parsed.tm.tm_zone = <<>>

StartsWith(str, prefix) ==
  Len(str) >= Len(prefix) /\ SubSeq(str, 1, Len(prefix)) = prefix

StartsWithUtcOrGmt(str) ==
  StartsWith(str, <<"U", "T", "C">>) \/ StartsWith(str, <<"G", "M", "T">>)

\* C12: for the format "%Z" and a non-empty input: an input that starts with
\* "UTC" or "GMT" has exactly three characters consumed and, when nothing
\* follows them, the Tm returned has tm_gmtoff 0 and tm_zone "UTC"; for every
\* other input the step still succeeds (the scan ends by its loop condition,
\* never by an error of the step or a task failure) and a Tm returned has the
\* zone and offset of empty_tm.
C12_ZoneToken ==
  (Returned("strptime") /\ format = <<"%", "Z">> /\ s # <<>>) =>
    IF StartsWithUtcOrGmt(s)
      THEN /\ parsed.exit = "cond"
           /\ parsed.pos = 3
           /\ Len(s) = 3 =>
                 /\ parsed.kind = "Ok"
                 /\ parsed.tm.tm_gmtoff = 0
                 /\ parsed.tm.tm_zone = <<"U", "T", "C">>
      ELSE /\ parsed.exit = "cond"
           /\ parsed.kind = "Ok" =>
                 /\ parsed.tm.tm_gmtoff = empty_tm.tm_gmtoff
                 /\ parsed.tm.tm_zone = empty_tm.tm_zone

\* the call is strptime(strftime(format, tm), format)
Reparsed == Returned("strptime") /\ text # <<>> /\ s = text

\* the field a single-field specifier of C13 writes and reads
FieldOf(ch) ==
  CASE ch \in {"d", "e"} -> "tm_mday"
    [] ch \in {"H", "k"} -> "tm_hour"
    [] ch = "M" -> "tm_min"
    [] ch = "S" -> "tm_sec"
    [] ch \in {"m", "B", "b", "h"} -> "tm_mon"
    [] ch = "j" -> "tm_yday"
    [] ch = "f" -> "tm_nsec"
    [] ch \in {"A", "a", "u", "w"} -> "tm_wday"

FieldSpecifiers ==
  {"d", "e", "H", "k", "M", "S", "m", "j", "f", "A", "a", "B", "b", "h", "u",
   "w"}

\* the range C13 and C14 give for a field
FieldRange(field) ==
  CASE field = "tm_mday" -> 1..31
    [] field = "tm_hour" -> 0..23
    [] field = "tm_min" -> 0..59
    [] field = "tm_sec" -> 0..60
    [] field = "tm_mon" -> 0..11
    [] field = "tm_yday" -> 0..365
    [] field = "tm_nsec" -> 0..999999999
    [] field = "tm_wday" -> 0..6

\* C13: for X among d e H k M S m j f A a B b h u w and a Tm whose field of X
\* is in its range, strptime(strftime("%X", tm), "%X") is Ok and the field of
\* X in the Tm returned is the field of tm.
C13_FieldRoundTrip ==
  (/\ Reparsed
   /\ format \in OneSpecifier(FieldSpecifiers)
   /\ tm[FieldOf(format[2])] \in FieldRange(FieldOf(format[2]))) =>
    /\ parsed.kind = "Ok"
    /\ parsed.tm[FieldOf(format[2])] = tm[FieldOf(format[2])]

C13_Witness ==
  /\ Reparsed
  /\ format = <<"%", "j">>
  /\ tm.tm_yday = 365
  /\ text = <<"3", "6", "6">>
  /\ parsed.kind = "Ok"
  /\ parsed.tm.tm_yday = 365

InRangeFields(t) ==
  \A field \in {"tm_mday", "tm_hour", "tm_min", "tm_sec", "tm_mon", "tm_yday",
                "tm_nsec", "tm_wday"} : t[field] \in FieldRange(field)

TextSpecifiers ==
  {"C", "y", "I", "l", "P", "p", "c", "D", "x", "F", "R", "r", "T", "X", "v",
   "n", "t", "%"}

\* C14: for f among %C %y %I %l %P %p %c %D %x %F %R %r %T %X %v %n %t %% and
\* a Tm with every field in range and 1000 <= 1900 + tm_year <= 9999, with
\* s = strftime(f, tm): strptime(s, f) is Ok and formats with f to s again,
\* which is what test(s, f) returns true for.
C14_TextRoundTrip ==
  (/\ Returned("test")
   /\ format \in OneSpecifier(TextSpecifiers)
   /\ InRangeFields(tm)
   /\ 1900 + tm.tm_year \in 1000..9999) =>
    ret.kind = "true"

C14_Witness ==
  /\ Returned("test")
  /\ format = <<"%", "r">>
  /\ tm.tm_hour = 12
  /\ s = <<"1", "2", ":", "3", "1", ":", "3", "0", " ", "P", "M">>
  /\ ret.kind = "true"

BoolCount(bools) == Cardinality({i \in DOMAIN bools : bools[i]})

\* C15: lt on Timespec is the strict lexicographic order on (sec, nsec):
\* exactly one of a < b, a == b, b < a holds; a < b and b < c give a < c;
\* le, gt and ge are lt-or-equal, the converse of lt, and gt-or-equal; ne is
\* the negation of eq; and the five values of test_timespec_eq_ord order as
\* (-2,1) < (-1,2) < (1,2) < (2,1) == (2,1).
C15_TimespecOrder ==
  Returned("compare") =>
    /\ BoolCount(<<ret.lt_ab, ret.eq_ab, ret.lt_ba>>) = 1
    /\ (ret.lt_ab /\ ret.lt_bc) => ret.lt_ac
    /\ ret.lt_ab <=> \/ ret.a.sec < ret.b.sec
                     \/ ret.a.sec = ret.b.sec /\ ret.a.nsec < ret.b.nsec
    /\ ret.eq_ab <=> ret.a = ret.b
    /\ ret.ne_ab <=> ~ret.eq_ab
    /\ ret.le_ab <=> (ret.lt_ab \/ ret.eq_ab)
    /\ ret.gt_ab <=> ret.lt_ba
    /\ ret.ge_ab <=> (ret.gt_ab \/ ret.eq_ab)
    /\ (ret.a = [sec |-> -2, nsec |-> 1] /\ ret.b = [sec |-> -1, nsec |-> 2])
         => ret.lt_ab
    /\ (ret.a = [sec |-> -1, nsec |-> 2] /\ ret.b = [sec |-> 1, nsec |-> 2])
         => ret.lt_ab
    /\ (ret.a = [sec |-> 1, nsec |-> 2] /\ ret.b = [sec |-> 2, nsec |-> 1])
         => ret.lt_ab
    /\ (ret.a = [sec |-> 2, nsec |-> 1] /\ ret.b = [sec |-> 2, nsec |-> 1])
         => (ret.eq_ab /\ ret.le_ab /\ ret.ge_ab)

C15_Witness ==
  /\ Returned("compare")
  /\ ret.a = [sec |-> 1, nsec |-> 2]
  /\ ret.b = [sec |-> 2, nsec |-> 1]
  /\ ret.c = [sec |-> 2, nsec |-> 2]
  /\ ret.lt_ab /\ ret.lt_bc /\ ret.lt_ac
  /\ ~ret.lt_ba /\ ~ret.eq_ab /\ ret.le_ab /\ ~ret.ge_ab /\ ~ret.gt_ab

\* C16: Timespec::new(sec, nsec) fails its assertion, and makes no value,
\* when nsec is outside 0 <= nsec < 1_000_000_000 (it does not carry nsec
\* into sec); otherwise the value has exactly the sec and nsec given.
C16_New ==
  Returned("new") =>
    IF 0 <= clock.nsec /\ clock.nsec < 1000000000
      THEN ret = [kind |-> "Ok", ts |-> clock]
      ELSE ret = [kind |-> "Fail"]

C16_Witness ==
  /\ Returned("new")
  /\ clock.nsec = 1000000000
  /\ ret.kind = "Fail"

\* C17: with rust_gmtime / rust_timegm and rust_localtime / rust_mktime
\* inverse to each other under the zone installed: for t == at_utc(clock) or
\* t == at(clock), t.to_timespec() is clock, computed by rust_timegm exactly
\* when t.tm_gmtoff is 0 and by rust_mktime otherwise; t.to_local() is
\* at(clock) and t.to_utc() is at_utc(clock).
C17_InstantRoundTrip ==
  /\ Returned("to_timespec") =>
       /\ ret = [kind |-> "Ok", ts |-> clock]
       /\ ret.ts.sec = IF tm.tm_gmtoff = 0 THEN rust_timegm(tm)
                                           ELSE rust_mktime(tm)
  /\ Returned("to_local") => ret = [kind |-> "Ok", tm |-> at(clock, tz)]
  /\ Returned("to_utc") => ret = [kind |-> "Ok", tm |-> at_utc(clock)]

C17_Witness ==
  /\ Returned("to_timespec")
  /\ clock = [sec |-> 1234567890, nsec |-> 54321]
  /\ tz.gmtoff = -28800
  /\ tm.tm_gmtoff = -28800
  /\ tm.tm_hour = 15
  /\ ret.ts = clock

\* the specifiers do_strftime has an arm for
FormatSpecifiers ==
  {"A", "a", "B", "b", "h", "C", "c", "D", "x", "d", "e", "f", "F", "H", "I",
   "j", "k", "l", "M", "m", "n", "P", "p", "R", "r", "S", "s", "T", "X", "t",
   "u", "v", "w", "Y", "y", "Z", "z", "%"}

\* ch is not a specifier of the table, or names a day or month that t does
\* not have
NotFormattable(ch, t) ==
  \/ ch \notin FormatSpecifiers
  \/ ch \in {"A", "a", "c"} /\ t.tm_wday \notin 0..6
  \/ ch \in {"B", "b", "h", "c", "v"} /\ t.tm_mon \notin 0..11

\* some specifier of fmt, read as do_strftime reads it from fpos on, is not
\* formattable
RECURSIVE HasNotFormattable(_, _, _)
HasNotFormattable(fmt, fpos, t) ==
  IF fpos >= Len(fmt) THEN FALSE
  ELSE IF fmt[fpos + 1] # "%" THEN HasNotFormattable(fmt, fpos + 1, t)
  ELSE IF fpos + 1 >= Len(fmt) THEN TRUE
  ELSE \/ NotFormattable(fmt[fpos + 2], t)
       \/ HasNotFormattable(fmt, fpos + 2, t)

\* C18: strftime does not return a text when the format has a specifier that
\* is not in the table, or has %A / %a with tm_wday outside 0..6 or
\* %B / %b / %h with tm_mon outside 0..11: every call that returns is free of
\* them.
C18_FatalFailure ==
  Returned("strftime") => ~HasNotFormattable(format, 0, tm)

\* C19: every Tm a successful strptime returns has tm_hour in 0..23, also
\* when the format has a 24-hour specifier and %p / %P, or %p / %P twice.
C19_HourRange ==
  (Returned("strptime") /\ parsed.kind = "Ok") => parsed.tm.tm_hour \in 0..23

SignedFourDigits(str) ==
  /\ Len(str) = 5
  /\ str[1] \in {"+", "-"}
  /\ \A i \in 2..5 : str[i] \in Digits

\* what strptime("-0000", "%z") returns
ZeroOffsetTm == strptime(<<"-", "0", "0", "0", "0">>, <<"%", "z">>).tm

\* C20 as stated: with the format "%z", every input of a sign and four
\* digits parses to the Tm that "-0000" parses to, tm_zone included.
C20_Original ==
  (Returned("strptime") /\ format = <<"%", "z">> /\ SignedFourDigits(s)) =>
    /\ parsed.kind = "Ok"
    /\ parsed.tm = ZeroOffsetTm

\* C20, amended: with the format "%z", every input of a sign and four digits
\* parses to a Tm that agrees with the Tm of "-0000" in every field but
\* tm_zone (tm_gmtoff is 0 in all); tm_zone is "UTC" when the four digits
\* are 0000 and stays empty otherwise.
C20_SameButZone ==
  (Returned("strptime") /\ format = <<"%", "z">> /\ SignedFourDigits(s)) =>
    /\ parsed.kind = "Ok"
    /\ [parsed.tm EXCEPT !.tm_zone = <<>>] = [ZeroOffsetTm EXCEPT !.tm_zone = <<>>]
    /\ parsed.tm.tm_gmtoff = 0
    /\ parsed.tm.tm_zone = IF SubSeq(s, 2, 5) = <<"0", "0", "0", "0">>
                             THEN <<"U", "T", "C">> ELSE <<>>

C20_Witness ==
  /\ Returned("strptime")
  /\ format = <<"%", "z">>
  /\ s = <<"+", "0", "8", "0", "0">>
  /\ parsed.kind = "Ok"
  /\ parsed.tm.tm_zone = <<>>
  /\ ZeroOffsetTm.tm_zone = <<"U", "T", "C">>

\* C21: %Z on a token other than "UTC" / "GMT" stops before the space that
\* ends the token, so that the space of the format "%Z %Y" matches it:
\* strptime("PST 2009", "%Z %Y") is Ok with tm_year 109 and an empty tm_zone.
C21_ZoneThenSpace ==
  (/\ Returned("strptime")
   /\ s = <<"P", "S", "T", " ", "2", "0", "0", "9">>
   /\ format = <<"%", "Z", " ", "%", "Y">>) =>
    /\ parsed.kind = "Ok"
    /\ parsed.tm.tm_year = 109
    /\ parsed.tm.tm_zone = <<>>

\* the message of the arm of a space-padded specifier
SpacePaddedMsg(ch) ==
  IF ch = "e" THEN <<"Invalid day of the month">> ELSE <<"Invalid hour">>

\* C22: %e, %k and %l take a space only where the first digit would be: for
\* an input of two characters, a digit followed by a space is an Err with the
\* message of the field, and a space followed by the digit 1 or 2 is Ok with
\* that digit as the value.
C22_LeadingSpaceOnly ==
  (/\ Returned("strptime")
   /\ format \in OneSpecifier({"e", "k", "l"})
   /\ Len(s) = 2) =>
    /\ (s[1] \in Digits /\ s[2] = " ") =>
         /\ parsed.kind = "Err"
         /\ parsed.msg = SpacePaddedMsg(format[2])
    /\ (s[1] = " " /\ s[2] \in {"1", "2"}) =>
         /\ parsed.kind = "Ok"
         /\ parsed.tm[IF format[2] = "e" THEN "tm_mday" ELSE "tm_hour"]
              = DigitVal(s[2])

\* C23 as stated: for a Tm with 0 <= 1900 + tm_year <= 9999,
\* strptime(strftime("%Y", tm), "%Y") is Ok and returns tm_year.
C23_Original ==
  (/\ Reparsed
   /\ format = <<"%", "Y">>
   /\ 1900 + tm.tm_year \in 0..9999) =>
    /\ parsed.kind = "Ok"
    /\ parsed.tm.tm_year = tm.tm_year

\* C23, amended: the round trip through "%Y" is Ok and returns tm_year when
\* 1000 <= 1900 + tm_year <= 9999; when 0 <= 1900 + tm_year < 1000 the text
\* has fewer than four digits and strptime returns Err("Invalid year").
C23_FourDigitYears ==
  (/\ Reparsed
   /\ format = <<"%", "Y">>
   /\ 1900 + tm.tm_year \in 0..9999) =>
    IF 1900 + tm.tm_year >= 1000
      THEN /\ parsed.kind = "Ok"
           /\ parsed.tm.tm_year = tm.tm_year
      ELSE /\ Len(text) < 4
           /\ ParsedErr(<<"Invalid year">>)

C23_Witness ==
  /\ Reparsed
  /\ format = <<"%", "Y">>
  /\ tm.tm_year = -1540
  /\ text = <<"3", "6", "0">>
  /\ ParsedErr(<<"Invalid year">>)

RECURSIVE Pow10(_)
Pow10(k) == IF k = 0 THEN 1 ELSE 10 * Pow10(k - 1)

\* the sum over the first nine digits d_i of run, from the i-th on, of
\* d_i * 10^(9 - i)
RECURSIVE FractionFrom(_, _)
FractionFrom(run, i) ==
  IF i > Len(run) \/ i > 9 THEN 0
  ELSE DigitVal(run[i]) * Pow10(9 - i) + FractionFrom(run, i + 1)

\* where the step of %f starts in the formats of C24
FractionStart == IF format[1] = "." THEN 1 ELSE 0

\* C24: %f takes the longest run of digits at the position, which may be
\* empty, and never fails; tm_nsec is the sum over the first nine digits d_i
\* of d_i * 10^(9 - i), later digits are taken and add nothing, and an empty
\* run gives tm_nsec 0 with the position where it was; ".01234" gives
\* 12340000.
C24_Fraction ==
  (/\ Returned("strptime")
   /\ format \in {<<"%", "f">>, <<"%", "f", "S">>, <<".", "%", "f">>}
   /\ FractionStart < Len(s)
   /\ format[1] = "." => s[1] = ".") =>
    LET n == DigitRun(s, FractionStart)
        run == SubSeq(s, FractionStart + 1, FractionStart + n)
    IN  /\ parsed.exit \notin {"error", "abort"}
        /\ format # <<"%", "f", "S">> => parsed.pos = FractionStart + n
        /\ (format # <<"%", "f", "S">> /\ FractionStart + n = Len(s)) =>
             /\ parsed.kind = "Ok"
             /\ parsed.tm.tm_nsec = FractionFrom(run, 1)
        /\ (format = <<"%", "f", "S">> /\ Len(s) = n + 1 /\ s[n + 1] = "S") =>
             /\ parsed.kind = "Ok"
             /\ parsed.tm.tm_nsec = FractionFrom(run, 1)
        /\ s = <<".", "0", "1", "2", "3", "4">> =>
             parsed.tm.tm_nsec = 12340000

C24_Witness ==
  /\ Returned("strptime")
  /\ format = <<"%", "f", "S">>
  /\ s = <<"1", "2", "3", "4", "5", "6", "7", "8", "9", "1", "2", "S">>
  /\ parsed.kind = "Ok"
  /\ parsed.tm.tm_nsec = 123456789

\* C25: the tm_nsec of every Tm a successful strptime returns is in
\* 0..999999999, for digit runs of every length under %f, so the assertion of
\* Timespec::new in to_timespec holds for it.
C25_NsecRange ==
  (Returned("strptime") /\ parsed.kind = "Ok") =>
    /\ parsed.tm.tm_nsec \in 0..999999999
    /\ Timespec_new(0, parsed.tm.tm_nsec).kind = "Ok"

C25_Witness ==
  /\ Returned("strptime")
  /\ format = <<"%", "f">>
  /\ s = <<"9", "9", "9", "9", "9", "9", "9", "9", "9", "9", "9">>
  /\ parsed.kind = "Ok"
  /\ parsed.tm.tm_nsec = 999999999

\* s is "hh:mm:ss AM" or "hh:mm:ss PM" with hh in 01..12, mm in 00..59 and
\* ss in 00..60
TwelveHourText ==
  /\ Len(s) = 11
  /\ \A i \in {1, 2, 4, 5, 7, 8} : s[i] \in Digits
  /\ s[3] = ":" /\ s[6] = ":" /\ s[9] = " "
  /\ s[10] \in {"A", "P"} /\ s[11] = "M"
  /\ DecimalValue(SubSeq(s, 1, 2)) \in 1..12
  /\ DecimalValue(SubSeq(s, 4, 5)) \in 0..59
  /\ DecimalValue(SubSeq(s, 7, 8)) \in 0..60

\* C26: strptime("hh:mm:ss half", "%r") is Ok with tm_hour (hh mod 12) plus 12
\* for PM, tm_min mm and tm_sec ss, so 12 AM is hour 0 and 12 PM is hour 12;
\* and for a Tm with tm_hour in 0..23 the text of strftime("%r") parses with
\* "%r" to the same tm_hour, tm_min and tm_sec.
C26_TwelveHour ==
  /\ (Returned("strptime") /\ format = <<"%", "r">> /\ TwelveHourText) =>
       /\ parsed.kind = "Ok"
       /\ parsed.tm.tm_hour = (DecimalValue(SubSeq(s, 1, 2)) % 12)
                                + (IF s[10] = "P" THEN 12 ELSE 0)
       /\ parsed.tm.tm_min = DecimalValue(SubSeq(s, 4, 5))
       /\ parsed.tm.tm_sec = DecimalValue(SubSeq(s, 7, 8))
  /\ (/\ Reparsed
      /\ format = <<"%", "r">>
      /\ tm.tm_hour \in 0..23 /\ tm.tm_min \in 0..59 /\ tm.tm_sec \in 0..60) =>
       /\ parsed.kind = "Ok"
       /\ parsed.tm.tm_hour = tm.tm_hour
       /\ parsed.tm.tm_min = tm.tm_min
       /\ parsed.tm.tm_sec = tm.tm_sec

C26_Witness ==
  /\ Returned("strptime")
  /\ text = <<>>
  /\ format = <<"%", "r">>
  /\ s = <<"1", "2", ":", "3", "1", ":", "6", "0", " ", "A", "M">>
  /\ parsed.kind = "Ok"
  /\ parsed.tm.tm_hour = 0
  /\ parsed.tm.tm_sec = 60

\* the chain of a composite arm, written as a format
Expansion(ch) ==
  CASE ch = "c" ->
         <<"%", "a", " ", "%", "b", " ", "%", "e", " ", "%", "T", " ", "%", "Y">>
    [] ch \in {"D", "x"} -> <<"%", "m", "/", "%", "d", "/", "%", "y">>
    [] ch = "F" -> <<"%", "Y", "-", "%", "m", "-", "%", "d">>
    [] ch = "R" -> <<"%", "H", ":", "%", "M">>
    [] ch = "r" -> <<"%", "I", ":", "%", "M", ":", "%", "S", " ", "%", "p">>
    [] ch \in {"T", "X"} -> <<"%", "H", ":", "%", "M", ":", "%", "S">>
    [] ch = "v" -> <<"%", "e", "-", "%", "b", "-", "%", "Y">>

\* C27: for a composite specifier and every input s, strptime(s, composite)
\* is Ok exactly when strptime(s, expansion) is, and then with the same Tm.
C27_CompositeIsExpansion ==
  (Returned("strptime") /\ format \in OneSpecifier(Composites)) =>
    /\ parsed.kind = "Ok" <=> strptime(s, Expansion(format[2])).kind = "Ok"
    /\ parsed.kind = "Ok" => parsed.tm = strptime(s, Expansion(format[2])).tm

C27_Witness ==
  /\ Returned("strptime")
  /\ format = <<"%", "v">>
  /\ s = <<"1", "3", "-", "F", "e", "b", "-", "2", "0", "0", "9">>
  /\ parsed.kind = "Ok"
  /\ parsed.tm.tm_year = 109

\* the specifier that the reader has just read when it stands at fpos, found
\* by reading the format from position i as the loop of do_strptime does;
\* "" when fpos is not right after a specifier
RECURSIVE SpecifierBefore(_, _, _)
SpecifierBefore(fmt, fpos, i) ==
  IF i >= Len(fmt) \/ i >= fpos THEN ""
  ELSE IF fmt[i + 1] # "%" THEN SpecifierBefore(fmt, fpos, i + 1)
  ELSE IF i + 1 >= Len(fmt) THEN (IF fpos = i + 1 THEN EOFChar ELSE "")
  ELSE IF fpos = i + 2 THEN fmt[i + 2]
  ELSE SpecifierBefore(fmt, fpos, i + 2)

\* the message of the arm of a specifier that reads a field
FieldMsg(ch) ==
  CASE ch \in {"A", "a"} -> <<"Invalid day">>
    [] ch \in {"B", "b", "h", "m"} -> <<"Invalid month">>
    [] ch \in {"C", "Y", "y"} -> <<"Invalid year">>
    [] ch \in {"d", "e"} -> <<"Invalid day of the month">>
    [] ch \in {"H", "I", "k", "l", "P", "p"} -> <<"Invalid hour">>
    [] ch = "j" -> <<"Invalid day of year">>
    [] ch = "M" -> <<"Invalid minute">>
    [] ch = "S" -> <<"Invalid second">>
    [] ch \in {"u", "w"} -> <<"Invalid day of week">>
    [] ch = "z" -> <<"Invalid zone offset">>

\* the characters a specifier matches with parse_char
Separators(ch) ==
  CASE ch \in {"c", "r"} -> {" ", ":"}
    [] ch \in {"D", "x"} -> {"/"}
    [] ch \in {"F", "v"} -> {"-"}
    [] ch \in {"R", "T", "X"} -> {":"}
    [] ch = "n" -> {"\n"}
    [] ch = "t" -> {"\t"}
    [] ch = "%" -> {"%"}

\* msg is "Expected X, found Y" for a separator X of ch and a character Y of
\* the input that differs from X
IsExpectedFound(msg, ch, str) ==
  /\ Len(msg) = 4
  /\ msg[1] = "Expected " /\ msg[3] = ", found "
  /\ msg[2] \in Separators(ch)
  /\ msg[4] # msg[2]
  /\ \E i \in 1..Len(str) : str[i] = msg[4]

\* msg is an error that the step of specifier ch gives for the input str
RECURSIVE IsErrorOf(_, _, _)
IsErrorOf(msg, ch, str) ==
  CASE ch \in {"n", "t", "%"} -> IsExpectedFound(msg, ch, str)
    [] ch \in Composites ->
         \/ IsExpectedFound(msg, ch, str)
         \/ \E i \in 1..Len(Expansion(ch)) - 1 :
              /\ Expansion(ch)[i] = "%"
              /\ IsErrorOf(msg, Expansion(ch)[i + 1], str)
    [] ch \in {"f", "Z"} -> FALSE
    [] ch \in {"A", "a", "B", "b", "h", "m", "C", "Y", "y", "d", "e", "H",
               "I", "k", "l", "P", "p", "j", "M", "S", "u", "w", "z"} ->
         msg = FieldMsg(ch)
    [] OTHER -> msg = <<"unknown formatting type: ", ch>>

\* C28: a call of strptime in which a step fails returns an Err: with the
\* message of the specifier whose step failed, which is the last one the
\* reader has read -- the field's message, "Expected X, found Y" for a
\* separator of a composite, "unknown formatting type: c" for a character
\* that is no specifier -- and with "Invalid time" when a literal character
\* of the format differs from the input character.
C28_ErrorClass ==
  Returned("strptime") =>
    /\ parsed.exit = "literal" => ParsedErr(<<"Invalid time">>)
    /\ parsed.exit \in {"error", "abort"} =>
         /\ parsed.kind = "Err"
         /\ IsErrorOf(parsed.msg, SpecifierBefore(format, parsed.fpos, 0), s)

\* C29: %C adds v * 100 - 1900 to the tm_year read so far, %y overwrites it:
\* "%y%C" on four digits yycc gives yy + cc * 100 - 1900 ("0920": 109),
\* "%C%y" on ccyy gives yy ("2009": 9), and "%C" alone on cc gives
\* cc * 100 - 1900 ("19": 0).
C29_CenturyAdds ==
  (Returned("strptime") /\ \A i \in 1..Len(s) : s[i] \in Digits) =>
    /\ (format = <<"%", "y", "%", "C">> /\ Len(s) = 4) =>
         /\ parsed.kind = "Ok"
         /\ parsed.tm.tm_year = DecimalValue(SubSeq(s, 1, 2))
                                  + DecimalValue(SubSeq(s, 3, 4)) * 100 - 1900
    /\ (format = <<"%", "C", "%", "y">> /\ Len(s) = 4) =>
         /\ parsed.kind = "Ok"
         /\ parsed.tm.tm_year = DecimalValue(SubSeq(s, 3, 4))
    /\ (format = <<"%", "C">> /\ Len(s) = 2) =>
         /\ parsed.kind = "Ok"
         /\ parsed.tm.tm_year = DecimalValue(s) * 100 - 1900
    /\ (format = <<"%", "y", "%", "C">> /\ s = <<"0", "9", "2", "0">>) =>
         parsed.tm.tm_year = 109
    /\ (format = <<"%", "C", "%", "y">> /\ s = <<"2", "0", "0", "9">>) =>
         parsed.tm.tm_year = 9
    /\ (format = <<"%", "C">> /\ s = <<"1", "9">>) => parsed.tm.tm_year = 0

C29_Witness ==
  /\ Returned("strptime")
  /\ format = <<"%", "y", "%", "C">>
  /\ s = <<"0", "9", "2", "0">>
  /\ parsed.kind = "Ok"
  /\ parsed.tm.tm_year = 109

\* the fields of a Tm
TmFields ==
  {"tm_sec", "tm_min", "tm_hour", "tm_mday", "tm_mon", "tm_year", "tm_wday",
   "tm_yday", "tm_isdst", "tm_gmtoff", "tm_zone", "tm_nsec"}

\* the fields the arm of a specifier assigns; a composite assigns what the
\* arms it calls assign
RECURSIVE CoveredFields(_, _)
OwnFields(ch) ==
  CASE ch \in {"d", "e"} -> {"tm_mday"}
    [] ch \in {"m", "B", "b", "h"} -> {"tm_mon"}
    [] ch \in {"H", "I", "k", "l", "p", "P"} -> {"tm_hour"}
    [] ch = "M" -> {"tm_min"}
    [] ch = "S" -> {"tm_sec"}
    [] ch = "f" -> {"tm_nsec"}
    [] ch = "j" -> {"tm_yday"}
    [] ch \in {"a", "A", "u", "w"} -> {"tm_wday"}
    [] ch \in {"Y", "y", "C"} -> {"tm_year"}
    [] ch \in {"Z", "z"} -> {"tm_gmtoff", "tm_zone"}
    [] ch \in Composites -> CoveredFields(Expansion(ch), 0)
    [] OTHER -> {}

\* the fields assigned by the specifiers of fmt from reader position i on
CoveredFields(fmt, i) ==
  IF i >= Len(fmt) THEN {}
  ELSE IF fmt[i + 1] # "%" THEN CoveredFields(fmt, i + 1)
  ELSE IF i + 1 >= Len(fmt) THEN {}
  ELSE OwnFields(fmt[i + 2]) \cup CoveredFields(fmt, i + 2)

\* the reader position of the '%' of the specifier after which the reader
\* stands at fpos, scanning fmt from i
RECURSIVE StepStart(_, _, _)
StepStart(fmt, fpos, i) ==
  IF i >= Len(fmt) \/ i >= fpos THEN i
  ELSE IF fmt[i + 1] # "%" THEN StepStart(fmt, fpos, i + 1)
  ELSE IF i + 1 >= Len(fmt) \/ fpos = i + 2 THEN i
  ELSE StepStart(fmt, fpos, i + 2)

\* the value of a field no specifier has assigned
Unassigned(f) == IF f = "tm_zone" THEN <<>> ELSE 0

\* C30: a parse step changes only the fields of its specifier and the
\* position: started on any Tm, a successful step leaves every other field
\* as it was; a successful parse leaves every field that no specifier of the
\* format covers at 0 (the zone empty); and when a step fails, the position
\* is still the one the steps before it had reached.
C30_Frame ==
  Returned("strptime") =>
    /\ parsed.kind = "Ok" =>
         \A f \in TmFields \ CoveredFields(format, 0) :
           parsed.tm[f] = Unassigned(f)
    /\ (Len(format) = 2 /\ format[1] = "%") =>
         LET r == parse_type(s, 0, format[2], UtcExample) IN
         r.kind = "Ok" =>
           \A f \in TmFields \ OwnFields(format[2]) : r.tm[f] = UtcExample[f]
    /\ (parsed.kind = "Err" /\ parsed.exit = "error") =>
         LET q == do_strptime(s, SubSeq(format, 1,
                                         StepStart(format, parsed.fpos, 0))) IN
         /\ q.exit = "cond"
         /\ q.pos = parsed.pos
         /\ parsed.pos < Len(s)

C30_Witness ==
  /\ Returned("strptime")
  /\ format = <<"%", "C", "%", "y">>
  /\ s = <<"2", "0", "0", "9">>
  /\ parsed.kind = "Ok"
  /\ parsed.tm = [empty_tm EXCEPT !.tm_year = 9]

====
